---- MODULE Spec2Model ----
(***************************************************************************)
(* Model of the external-dns sources for Contour HTTPProxy and             *)
(* IngressRoute, Kong TCPIngress, Ambassador Host and Gloo Proxy objects:  *)
(* the Endpoints pass of each source over a snapshot of its informer       *)
(* cache, and the pure helpers the passes use.                             *)
(*                                                                         *)
(* A Go string is a sequence of one-character strings, so that Split,      *)
(* Replace, TrimSuffix, the byte-wise comparison of sort.Sort and the IP   *)
(* test are computed, not assumed.  A Go map[string]string is a function   *)
(* whose domain is the set of keys present.                                *)
(***************************************************************************)
EXTENDS Integers, Sequences, FiniteSets, TLC

VARIABLES
    source,     \* which Source implementation the pass belongs to
    config,     \* the fields of the source struct set at construction
    cache,      \* the informer caches: resources (in List order) and services
    ctx,        \* the context passed to Endpoints: "live" or "cancelled"
    env,        \* history: what the store and the API server did to the pass
    pc,         \* position in Endpoints: "idle", "loop", "done"
    idx,        \* index in the listed resources of the next loop iteration
    endpoints,  \* the local accumulator `endpoints` of Endpoints
    origins,    \* history: for each accumulated endpoint, the index of its resource
    returned,   \* the value of the last return of Endpoints
    previous,   \* the value of the return before that
    passes,     \* number of completed Endpoints calls
    arg,        \* argument of a pure helper under test
    out,        \* its result
    other       \* the call of Endpoints that another goroutine is in

vars == <<source, config, cache, ctx, env, pc, idx, endpoints, origins, returned, previous, passes,
          arg, out, other>>

-----------------------------------------------------------------------------
(* Bounds of the model *)

MaxResources == 2
MaxPasses == 2
MaxRefLen == 5
MaxOutLen == 4
MaxChanges == 1

-----------------------------------------------------------------------------
(* Strings *)

\* The characters used, in increasing byte order (ASCII).
ByteOrder ==
    << " ", ",", "-", ".", "/",
       "0", "1", "2", "3", "4", "5", "6", "7", "8", "9",
       "H", "P", "T",
       "a", "b", "c", "d", "e", "f", "g", "h", "i", "j", "k", "l", "m",
       "n", "o", "p", "q", "r", "s", "t", "u", "v", "w", "x", "y", "z" >>

Byte(c) == CHOOSE i \in 1..Len(ByteOrder) : ByteOrder[i] = c

Digits == {"0", "1", "2", "3", "4", "5", "6", "7", "8", "9"}

DigitValue(c) == Byte(c) - Byte("0")

\* Go's < on strings: byte-wise lexicographic.
RECURSIVE StrLess(_, _)
StrLess(a, b) ==
    IF b = <<>> THEN FALSE
    ELSE IF a = <<>> THEN TRUE
    ELSE IF a[1] # b[1] THEN Byte(a[1]) < Byte(b[1])
    ELSE StrLess(Tail(a), Tail(b))

Contains(s, c) == \E i \in 1..Len(s) : s[i] = c

Index(s, c) == CHOOSE i \in 1..Len(s) : s[i] = c /\ \A j \in 1..(i - 1) : s[j] # c

\* strings.Split(s, sep) for a one-character sep.
RECURSIVE Split(_, _)
Split(s, sep) ==
    IF ~Contains(s, sep) THEN <<s>>
    ELSE <<SubSeq(s, 1, Index(s, sep) - 1)>>
            \o Split(SubSeq(s, Index(s, sep) + 1, Len(s)), sep)

\* strings.SplitN(s, sep, 2) for a one-character sep.
SplitN2(s, sep) ==
    IF ~Contains(s, sep) THEN <<s>>
    ELSE <<SubSeq(s, 1, Index(s, sep) - 1), SubSeq(s, Index(s, sep) + 1, Len(s))>>

\* strings.Replace(s, " ", "", -1)
RemoveSpaces(s) == SelectSeq(s, LAMBDA c : c # " ")

\* strings.TrimSuffix(s, ".")
TrimSuffixDot(s) ==
    IF Len(s) > 0 /\ s[Len(s)] = "." THEN SubSeq(s, 1, Len(s) - 1) ELSE s

RECURSIVE Concat(_)
Concat(ss) == IF ss = <<>> THEN <<>> ELSE Head(ss) \o Concat(Tail(ss))

RECURSIVE Join(_, _)
Join(ss, sep) ==
    IF ss = <<>> THEN <<>>
    ELSE IF Len(ss) = 1 THEN ss[1]
    ELSE ss[1] \o <<sep>> \o Join(Tail(ss), sep)

Range(f) == {f[i] : i \in DOMAIN f}

\* All strings over alphabet A of length at most n.
RECURSIVE StringsUpTo(_, _)
StringsUpTo(A, n) ==
    IF n = 0 THEN {<<>>}
    ELSE LET shorter == StringsUpTo(A, n - 1)
         IN  shorter \cup {Append(s, c) : s \in shorter, c \in A}

-----------------------------------------------------------------------------
(* Annotation vocabulary and helpers shared by the sources *)

targetAnnotationKey == "external-dns.alpha.kubernetes.io/target"
hostnameAnnotationKey == "external-dns.alpha.kubernetes.io/hostname"
ttlAnnotationKey == "external-dns.alpha.kubernetes.io/ttl"
controllerAnnotationKey == "external-dns.alpha.kubernetes.io/controller"
SetIdentifierKey == "external-dns.alpha.kubernetes.io/set-identifier"
awsWeightKey == "external-dns.alpha.kubernetes.io/aws-weight"
awsGeolocationCountryCodeKey == "external-dns.alpha.kubernetes.io/aws-geolocation-country-code"
ingressClassKey == "contour.heptio.com/ingress.class"
ambHostAnnotation == "external-dns.ambassador-service"

controllerAnnotationValue == <<"d", "n", "s", "-", "c", "o", "n", "t", "r", "o", "l", "l", "e", "r">>
ALBDualstackAnnotationKey == "alb.ingress.kubernetes.io/ip-address-type"

s_ingressClassKey == <<"c", "o", "n", "t", "o", "u", "r", ".", "h", "e", "p", "t", "i", "o", ".", "c", "o", "m", "/", "i", "n", "g", "r", "e", "s", "s", ".", "c", "l", "a", "s", "s">>

\* The annotation keys an object can carry, each with its characters.
AnnotationKeys ==
    {<<"kubernetes.io/ingress.class",
       <<"k", "u", "b", "e", "r", "n", "e", "t", "e", "s", ".", "i", "o", "/", "i", "n", "g", "r", "e", "s", "s", ".", "c", "l", "a", "s", "s">>>>,
     <<targetAnnotationKey,
       <<"e", "x", "t", "e", "r", "n", "a", "l", "-", "d", "n", "s", ".", "a", "l", "p", "h", "a", ".", "k", "u", "b", "e", "r", "n", "e", "t", "e", "s", ".", "i", "o", "/", "t", "a", "r", "g", "e", "t">>>>,
     <<hostnameAnnotationKey,
       <<"e", "x", "t", "e", "r", "n", "a", "l", "-", "d", "n", "s", ".", "a", "l", "p", "h", "a", ".", "k", "u", "b", "e", "r", "n", "e", "t", "e", "s", ".", "i", "o", "/", "h", "o", "s", "t", "n", "a", "m", "e">>>>,
     <<ttlAnnotationKey,
       <<"e", "x", "t", "e", "r", "n", "a", "l", "-", "d", "n", "s", ".", "a", "l", "p", "h", "a", ".", "k", "u", "b", "e", "r", "n", "e", "t", "e", "s", ".", "i", "o", "/", "t", "t", "l">>>>,
     <<controllerAnnotationKey,
       <<"e", "x", "t", "e", "r", "n", "a", "l", "-", "d", "n", "s", ".", "a", "l", "p", "h", "a", ".", "k", "u", "b", "e", "r", "n", "e", "t", "e", "s", ".", "i", "o", "/", "c", "o", "n", "t", "r", "o", "l", "l", "e", "r">>>>,
     <<SetIdentifierKey,
       <<"e", "x", "t", "e", "r", "n", "a", "l", "-", "d", "n", "s", ".", "a", "l", "p", "h", "a", ".", "k", "u", "b", "e", "r", "n", "e", "t", "e", "s", ".", "i", "o", "/", "s", "e", "t", "-", "i", "d", "e", "n", "t", "i", "f", "i", "e", "r">>>>,
     <<awsGeolocationCountryCodeKey,
       <<"e", "x", "t", "e", "r", "n", "a", "l", "-", "d", "n", "s", ".", "a", "l", "p", "h", "a", ".", "k", "u", "b", "e", "r", "n", "e", "t", "e", "s", ".", "i", "o", "/", "a", "w", "s", "-", "g", "e", "o", "l", "o", "c", "a", "t", "i", "o", "n", "-", "c", "o", "u", "n", "t", "r", "y", "-", "c", "o", "d", "e">>>>,
     <<ALBDualstackAnnotationKey,
       <<"a", "l", "b", ".", "i", "n", "g", "r", "e", "s", "s", ".", "k", "u", "b", "e", "r", "n", "e", "t", "e", "s", ".", "i", "o", "/", "i", "p", "-", "a", "d", "d", "r", "e", "s", "s", "-", "t", "y", "p", "e">>>>,
     <<awsWeightKey,
       <<"e", "x", "t", "e", "r", "n", "a", "l", "-", "d", "n", "s", ".", "a", "l", "p", "h", "a", ".", "k", "u", "b", "e", "r", "n", "e", "t", "e", "s", ".", "i", "o", "/", "a", "w", "s", "-", "w", "e", "i", "g", "h", "t">>>>,
     <<ingressClassKey,
       s_ingressClassKey>>,
     <<ambHostAnnotation,
       <<"e", "x", "t", "e", "r", "n", "a", "l", "-", "d", "n", "s", ".", "a", "m", "b", "a", "s", "s", "a", "d", "o", "r", "-", "s", "e", "r", "v", "i", "c", "e">>>>}


ResourceLabelKey == "resource"

NamespaceDefault == <<"d", "e", "f", "a", "u", "l", "t">>

RecordTypeA == "A"
RecordTypeCNAME == "CNAME"

\* A decimal field of a dotted IPv4 literal: one to three digits, at most 255.
RECURSIVE DecimalValue(_)
DecimalValue(s) ==
    IF s = <<>> THEN 0 ELSE 10 * DecimalValue(SubSeq(s, 1, Len(s) - 1)) + DigitValue(s[Len(s)])

IsOctet(s) ==
    /\ Len(s) \in 1..3
    /\ \A i \in 1..Len(s) : s[i] \in Digits
    /\ DecimalValue(s) <= 255

\* net.ParseIP(target) != nil, for strings without ':' (dotted IPv4 only).
IsIP(s) ==
    LET parts == Split(s, ".")
    IN  Len(parts) = 4 /\ \A i \in 1..4 : IsOctet(parts[i])

suitableType(target) == IF IsIP(target) THEN RecordTypeA ELSE RecordTypeCNAME

\* endpoint.NewLabels(): a fresh empty label map.
NewLabels == [k \in {} |-> <<>>]

\* One endpoint for the IP targets and one for the hostname targets of a
\* hostname, each with a target slice of its own; none when there is no
\* target of the kind.
endpointsForHostname(hostname, targets, ttl, providerSpecific, setIdentifier) ==
    LET aTargets == SelectSeq(targets, LAMBDA t : suitableType(t) = RecordTypeA)
        cnameTargets == SelectSeq(targets, LAMBDA t : suitableType(t) # RecordTypeA)
        ep(type, ts) ==
            [DNSName |-> TrimSuffixDot(hostname),
             Targets |-> ts,
             RecordType |-> type,
             RecordTTL |-> ttl,
             Labels |-> NewLabels,
             ProviderSpecific |-> providerSpecific,
             SetIdentifier |-> setIdentifier]
    IN  (IF Len(aTargets) > 0 THEN <<ep(RecordTypeA, aTargets)>> ELSE <<>>)
        \o (IF Len(cnameTargets) > 0 THEN <<ep(RecordTypeCNAME, cnameTargets)>> ELSE <<>>)

\* The targets of the target annotation: absent or empty gives none;
\* otherwise the value without spaces, split at commas, each item without
\* its trailing period.
getTargetsFromTargetAnnotation(annotations) ==
    IF targetAnnotationKey \in DOMAIN annotations /\ annotations[targetAnnotationKey] # <<>>
    THEN LET targetsList == Split(RemoveSpaces(annotations[targetAnnotationKey]), ",")
         IN  [i \in 1..Len(targetsList) |-> TrimSuffixDot(targetsList[i])]
    ELSE <<>>

\* The hostnames of the hostname annotation: the value without spaces,
\* split at commas.
getHostnamesFromAnnotations(annotations) ==
    IF hostnameAnnotationKey \in DOMAIN annotations
    THEN Split(RemoveSpaces(annotations[hostnameAnnotationKey]), ",")
    ELSE <<>>

\* parseTTL: decimal seconds, or a decimal count with unit "s", "m" or "h".
parseTTL(s) ==
    LET n == Len(s)
        allDigits(t) == t # <<>> /\ \A i \in 1..Len(t) : t[i] \in Digits
        unit == IF n > 0 THEN s[n] ELSE ""
        scale == IF unit = "s" THEN 1 ELSE IF unit = "m" THEN 60 ELSE 3600
    IN  IF allDigits(s) THEN [value |-> DecimalValue(s), err |-> FALSE]
        ELSE IF n > 1 /\ unit \in {"s", "m", "h"} /\ allDigits(SubSeq(s, 1, n - 1))
        THEN [value |-> scale * DecimalValue(SubSeq(s, 1, n - 1)), err |-> FALSE]
        ELSE [value |-> 0, err |-> TRUE]

\* TTL 0 without error when the annotation is absent; TTL 0 with an error
\* when it does not parse.
getTTLFromAnnotations(annotations) ==
    IF ttlAnnotationKey \notin DOMAIN annotations THEN [ttl |-> 0, err |-> FALSE]
    ELSE LET p == parseTTL(annotations[ttlAnnotationKey])
         IN  IF p.err THEN [ttl |-> 0, err |-> TRUE] ELSE [ttl |-> p.value, err |-> FALSE]

\* The characters of an annotation key.
charsOf(key) == (CHOOSE p \in AnnotationKeys : p[1] = key)[2]

HasPrefix(s, prefix) == Len(s) >= Len(prefix) /\ SubSeq(s, 1, Len(prefix)) = prefix

\* "external-dns.alpha.kubernetes.io/aws-", the prefix of the keys that
\* give provider-specific pairs.
awsPrefix ==
    <<"e", "x", "t", "e", "r", "n", "a", "l", "-", "d", "n", "s", ".", "a", "l", "p", "h", "a", ".", "k", "u", "b", "e", "r", "n", "e", "t", "e", "s", ".", "i", "o", "/", "a", "w", "s", "-">>

AwsKeys == {p[1] : p \in {q \in AnnotationKeys : HasPrefix(q[2], awsPrefix)}}

\* The orders in which a range over an annotation map can visit the keys
\* that have the prefix: nothing fixes the order in which the pairs are
\* made from the annotations, so that every order is possible at every
\* call.
MapOrders ==
    {o \in [1..Cardinality(AwsKeys) -> AwsKeys] :
        \A i, j \in 1..Cardinality(AwsKeys) : i # j => o[i] # o[j]}

FirstOrder == CHOOSE o \in MapOrders : TRUE

\* The orders that make a difference for a map: one when fewer than two
\* of its keys have the prefix.
RangeOrders(annotations) ==
    IF Cardinality(AwsKeys \cap DOMAIN annotations) >= 2 THEN MapOrders ELSE {FirstOrder}

\* The provider-specific pairs (one for each annotation whose key has the
\* prefix, named "aws/" and what follows the prefix, in the order in which
\* the keys are visited) and the set identifier ("" when absent).
getProviderSpecificAnnotations(annotations, order) ==
    LET present == SelectSeq(order, LAMBDA k : k \in DOMAIN annotations)
        name(k) == <<"a", "w", "s", "/">> \o SubSeq(charsOf(k), Len(awsPrefix) + 1, Len(charsOf(k)))
    IN  [providerSpecific |->
            [i \in 1..Len(present) |-> [Name |-> name(present[i]), Value |-> annotations[present[i]]]],
         setIdentifier |->
            IF SetIdentifierKey \in DOMAIN annotations THEN annotations[SetIdentifierKey] ELSE <<>>]

\* labels.Selector.Matches(labels.Set(annotations)): every requirement holds.
\* A requirement is [key, op, values] with op one of "in", "notin", "exists"
\* and "!".
\* "k=v" parses to [k, "in", {v}]; the empty filter parses to no requirement.
SelectorMatches(selector, annotations) ==
    \A r \in selector :
        CASE r.op = "in" -> r.key \in DOMAIN annotations /\ annotations[r.key] \in r.values
          [] r.op = "notin" -> r.key \notin DOMAIN annotations \/ annotations[r.key] \notin r.values
          [] r.op = "exists" -> r.key \in DOMAIN annotations
          [] r.op = "!" -> r.key \notin DOMAIN annotations

\* sort.Sort(ep.Targets): Less is the byte-wise string order.
RECURSIVE InsertSorted(_, _)
InsertSorted(t, sorted) ==
    IF sorted = <<>> THEN <<t>>
    ELSE IF StrLess(sorted[1], t) THEN <<sorted[1]>> \o InsertSorted(t, Tail(sorted))
    ELSE <<t>> \o sorted

RECURSIVE SortTargets(_)
SortTargets(targets) ==
    IF targets = <<>> THEN <<>> ELSE InsertSorted(Head(targets), SortTargets(Tail(targets)))

\* The targets of a load-balancer status: for each ingress entry its IP, if
\* set, then its hostname, if set.
RECURSIVE lbTargets(_)
lbTargets(ingress) ==
    IF ingress = <<>> THEN <<>>
    ELSE (IF Head(ingress).IP # <<>> THEN <<Head(ingress).IP>> ELSE <<>>)
         \o (IF Head(ingress).Hostname # <<>> THEN <<Head(ingress).Hostname>> ELSE <<>>)
         \o lbTargets(Tail(ingress))

-----------------------------------------------------------------------------
(* FQDN templates *)

\* A parsed template is a sequence of nodes: [text |-> s] is copied, [field
\* |-> path] is replaced by the printed value of the chain of fields
\* .F1.F2... of the object; the empty template string parses to no template
\* (nil), modelled as <<>>.

\* Spec.VirtualHost of the object, a pointer: nil (<<>>) or one virtual
\* host.
virtualHostOf(obj) == IF "VirtualHost" \in DOMAIN obj THEN obj.VirtualHost ELSE <<>>

\* The names of the fields that the templates of the model read.
s_Name == <<"N", "a", "m", "e">>
s_Namespace == <<"N", "a", "m", "e", "s", "p", "a", "c", "e">>
s_Spec == <<"S", "p", "e", "c">>
s_VirtualHost == <<"V", "i", "r", "t", "u", "a", "l", "H", "o", "s", "t">>
s_Fqdn == <<"F", "q", "d", "n">>

\* The chains of fields that lead to a string of the object.
StringFields == {<<s_Name>>, <<s_Namespace>>, <<s_Spec, s_VirtualHost, s_Fqdn>>}

\* The value of a chain of fields of the object, for the chains that lead
\* to a string or go on from one: .Name, .Namespace and
\* .Spec.VirtualHost.Fqdn are printed as they are; a field of the nil
\* pointer Spec.VirtualHost and a field of a string make the execution
\* fail.  The model has no template that prints a struct, a map or a
\* pointer (the text of fmt for the other fields of the objects), and
\* fieldValue has no value for such a chain.
fieldValue(path, obj) ==
    LET vhost == virtualHostOf(obj)
    IN  CASE path = <<s_Name>> -> [err |-> FALSE, out |-> obj.Name]
          [] path = <<s_Namespace>> -> [err |-> FALSE, out |-> obj.Namespace]
          [] path = <<s_Spec, s_VirtualHost, s_Fqdn>> ->
                IF vhost = <<>> THEN [err |-> TRUE, out |-> <<>>]
                ELSE [err |-> FALSE, out |-> vhost[1].Fqdn]
          [] \E n \in 1..(Len(path) - 1) : SubSeq(path, 1, n) \in StringFields ->
                [err |-> TRUE, out |-> <<>>]

RECURSIVE Execute(_, _)
Execute(tmpl, obj) ==
    IF tmpl = <<>> THEN [err |-> FALSE, out |-> <<>>]
    ELSE LET node == Head(tmpl)
             rest == Execute(Tail(tmpl), obj)
             this == IF "text" \in DOMAIN node THEN [err |-> FALSE, out |-> node.text]
                     ELSE fieldValue(node.field, obj)
         IN  IF this.err \/ rest.err THEN [err |-> TRUE, out |-> <<>>]
             ELSE [err |-> FALSE, out |-> this.out \o rest.out]

\* A variant that trims the spaces at the two ends of each item only.
RECURSIVE TrimSpaces(_)
TrimSpaces(s) ==
    IF s # <<>> /\ s[1] = " " THEN TrimSpaces(Tail(s))
    ELSE IF s # <<>> /\ s[Len(s)] = " " THEN TrimSpaces(SubSeq(s, 1, Len(s) - 1))
    ELSE s

templateHostnames_TrimEnds(hostnames) ==
    LET hostnameList == Split(hostnames, ",")
    IN  [i \in 1..Len(hostnameList) |-> TrimSuffixDot(TrimSpaces(hostnameList[i]))]

\* The hostnames of a rendered template: all spaces removed, split at
\* commas, one trailing period removed from each item.
templateHostnames(hostnames) ==
    LET hostnameList == Split(RemoveSpaces(hostnames), ",")
    IN  [i \in 1..Len(hostnameList) |-> TrimSuffixDot(hostnameList[i])]

-----------------------------------------------------------------------------
(* Ambassador service references *)

\* A variant that splits the dotted form at every period and keeps the
\* first two parts ("svc.foo.bar" gives namespace "foo").
parseAmbLoadBalancerService_SplitAll(service) ==
    LET parts == Split(service, "/")
    IN  IF Len(parts) = 1
        THEN LET dotted == Split(service, ".")
             IN  IF Len(dotted) >= 2
                 THEN [namespace |-> dotted[2], name |-> dotted[1], err |-> FALSE]
                 ELSE [namespace |-> NamespaceDefault, name |-> service, err |-> FALSE]
        ELSE IF Len(parts) = 2
        THEN [namespace |-> parts[1], name |-> parts[2], err |-> FALSE]
        ELSE [namespace |-> <<>>, name |-> <<>>, err |-> TRUE]

parseAmbLoadBalancerService(service) ==
    LET parts == Split(service, "/")
    IN  IF Len(parts) = 1
        THEN LET dotted == SplitN2(service, ".")
             IN  IF Len(dotted) = 2
                 THEN [namespace |-> dotted[2], name |-> dotted[1], err |-> FALSE]
                 ELSE [namespace |-> NamespaceDefault, name |-> service, err |-> FALSE]
        ELSE IF Len(parts) = 2
        THEN [namespace |-> parts[1], name |-> parts[2], err |-> FALSE]
        ELSE [namespace |-> <<>>, name |-> <<>>, err |-> TRUE]

\* parseContourLoadBalancerService: exactly "namespace/name".
parseContourLoadBalancerService(service) ==
    LET parts == Split(service, "/")
    IN  IF Len(parts) # 2
        THEN [namespace |-> <<>>, name |-> <<>>, err |-> TRUE]
        ELSE [namespace |-> parts[1], name |-> parts[2], err |-> FALSE]

-----------------------------------------------------------------------------
(* Contour HTTPProxy source *)

Nil == <<>>

\* The result of one iteration of the loop of Endpoints: "skip" (continue),
\* "error" (return nil, err) or "append" with the endpoints to append.
Skip == [kind |-> "skip", eps |-> <<>>]
Fail == [kind |-> "error", eps |-> <<>>]
Merge(eps) == [kind |-> "append", eps |-> eps]

\* fmt.Sprintf("<kind>/%s/%s", namespace, name)
resourceLabel(kind, obj) == kind \o <<"/">> \o obj.Namespace \o <<"/">> \o obj.Name

setLabel(eps, key, value) ==
    [i \in 1..Len(eps) |->
        [eps[i] EXCEPT !.Labels =
            [k \in DOMAIN eps[i].Labels \cup {key} |-> IF k = key THEN value ELSE eps[i].Labels[k]]]]

httpProxyKind == <<"H", "T", "T", "P", "P", "r", "o", "x", "y">>

httpProxySetResourceLabel(httpProxy, eps) ==
    setLabel(eps, ResourceLabelKey, resourceLabel(httpProxyKind, httpProxy))

\* A variant that makes the endpoints of each hostname target by target.
RECURSIVE endpointsForHostnames_PerTarget(_, _, _, _, _)
endpointsForHostnames_PerTarget(hostnameList, targets, ttl, providerSpecific, setIdentifier) ==
    IF hostnameList = <<>> THEN <<>>
    ELSE IF targets = <<>>
    THEN endpointsForHostnames_PerTarget(Tail(hostnameList), targets, ttl, providerSpecific, setIdentifier)
    ELSE endpointsForHostname(Head(hostnameList), <<Head(targets)>>, ttl, providerSpecific, setIdentifier)
         \o endpointsForHostnames_PerTarget(<<Head(hostnameList)>>, Tail(targets), ttl,
                                            providerSpecific, setIdentifier)
         \o endpointsForHostnames_PerTarget(Tail(hostnameList), targets, ttl,
                                            providerSpecific, setIdentifier)

\* The hostnames of a list, each turned into its endpoints, in order.
RECURSIVE endpointsForHostnames(_, _, _, _, _)
endpointsForHostnames(hostnameList, targets, ttl, providerSpecific, setIdentifier) ==
    IF hostnameList = <<>> THEN <<>>
    ELSE endpointsForHostname(Head(hostnameList), targets, ttl, providerSpecific, setIdentifier)
         \o endpointsForHostnames(Tail(hostnameList), targets, ttl, providerSpecific, setIdentifier)

\* A variant that appends the targets of the status to those of the annotation.
httpProxyTargets_WithStatus(httpProxy) ==
    getTargetsFromTargetAnnotation(httpProxy.Annotations) \o lbTargets(httpProxy.LoadBalancer)

httpProxyTargets(httpProxy) ==
    LET targets == getTargetsFromTargetAnnotation(httpProxy.Annotations)
    IN  IF Len(targets) = 0 THEN lbTargets(httpProxy.LoadBalancer) ELSE targets

httpProxyEndpointsFromTemplate(sc, httpProxy, order) ==
    LET exec == Execute(sc.fqdnTemplate, httpProxy)
        ttl == getTTLFromAnnotations(httpProxy.Annotations).ttl
        targets == httpProxyTargets(httpProxy)
        ps == getProviderSpecificAnnotations(httpProxy.Annotations, order)
    IN  IF exec.err THEN [err |-> TRUE, eps |-> Nil]
        ELSE [err |-> FALSE,
              eps |-> endpointsForHostnames(templateHostnames(exec.out), targets, ttl,
                                            ps.providerSpecific, ps.setIdentifier)]

\* A variant that puts the endpoints of the hostname annotation before
\* those of the native hostname.
endpointsFromHTTPProxy_AliasesFirst(sc, httpProxy, order) ==
    IF httpProxy.CurrentStatus # "valid" THEN [err |-> FALSE, eps |-> Nil]
    ELSE LET ttl == getTTLFromAnnotations(httpProxy.Annotations).ttl
             targets == httpProxyTargets(httpProxy)
             ps == getProviderSpecificAnnotations(httpProxy.Annotations, order)
             native ==
                 IF httpProxy.VirtualHost # Nil /\ httpProxy.VirtualHost[1].Fqdn # <<>>
                 THEN endpointsForHostname(httpProxy.VirtualHost[1].Fqdn, targets, ttl,
                                           ps.providerSpecific, ps.setIdentifier)
                 ELSE <<>>
             aliases ==
                 IF ~sc.ignoreHostnameAnnotation
                 THEN endpointsForHostnames(getHostnamesFromAnnotations(httpProxy.Annotations),
                                            targets, ttl, ps.providerSpecific, ps.setIdentifier)
                 ELSE <<>>
         IN  [err |-> FALSE, eps |-> aliases \o native]

\* A variant that uses the hostname annotation whatever the flag.
endpointsFromHTTPProxy_AlwaysAliases(sc, httpProxy, order) ==
    IF httpProxy.CurrentStatus # "valid" THEN [err |-> FALSE, eps |-> Nil]
    ELSE LET ttl == getTTLFromAnnotations(httpProxy.Annotations).ttl
             targets == httpProxyTargets(httpProxy)
             ps == getProviderSpecificAnnotations(httpProxy.Annotations, order)
             native ==
                 IF httpProxy.VirtualHost # Nil /\ httpProxy.VirtualHost[1].Fqdn # <<>>
                 THEN endpointsForHostname(httpProxy.VirtualHost[1].Fqdn, targets, ttl,
                                           ps.providerSpecific, ps.setIdentifier)
                 ELSE <<>>
             aliases ==
                 endpointsForHostnames(getHostnamesFromAnnotations(httpProxy.Annotations),
                                       targets, ttl, ps.providerSpecific, ps.setIdentifier)
         IN  [err |-> FALSE, eps |-> native \o aliases]

endpointsFromHTTPProxy(sc, httpProxy, order) ==
    IF httpProxy.CurrentStatus # "valid" THEN [err |-> FALSE, eps |-> Nil]
    ELSE LET ttl == getTTLFromAnnotations(httpProxy.Annotations).ttl
             targets == httpProxyTargets(httpProxy)
             ps == getProviderSpecificAnnotations(httpProxy.Annotations, order)
             native ==
                 IF httpProxy.VirtualHost # Nil /\ httpProxy.VirtualHost[1].Fqdn # <<>>
                 THEN endpointsForHostname(httpProxy.VirtualHost[1].Fqdn, targets, ttl,
                                           ps.providerSpecific, ps.setIdentifier)
                 ELSE <<>>
             aliases ==
                 IF ~sc.ignoreHostnameAnnotation
                 THEN endpointsForHostnames(getHostnamesFromAnnotations(httpProxy.Annotations),
                                            targets, ttl, ps.providerSpecific, ps.setIdentifier)
                 ELSE <<>>
         IN  [err |-> FALSE, eps |-> native \o aliases]

\* A variant of the filter without the controller annotation.
httpProxyKept_AnyController(sc, hp) ==
    /\ SelectorMatches(sc.annotationSelector, hp.Annotations)
    /\ hp.CurrentStatus = "valid"

\* The filter at the head of the loop: the annotation selector, the
\* controller annotation and the status.
httpProxyKept(sc, hp) ==
    /\ SelectorMatches(sc.annotationSelector, hp.Annotations)
    /\ ~(controllerAnnotationKey \in DOMAIN hp.Annotations
         /\ hp.Annotations[controllerAnnotationKey] # controllerAnnotationValue)
    /\ hp.CurrentStatus = "valid"

\* A variant that appends the endpoints of the template whenever one is
\* configured.
httpProxyCombine_Always(sc, hp, eps, order) ==
    IF sc.fqdnTemplate # Nil
    THEN LET tmpl == httpProxyEndpointsFromTemplate(sc, hp, order)
         IN  IF tmpl.err THEN [err |-> TRUE, eps |-> Nil]
             ELSE [err |-> FALSE, eps |-> eps \o tmpl.eps]
    ELSE [err |-> FALSE, eps |-> eps]

\* The template is applied when combining, or when the object itself gave
\* no endpoint; its endpoints are appended when combining and replace the
\* (empty) list otherwise.
httpProxyCombine(sc, hp, eps, order) ==
    IF (sc.combineFQDNAnnotation \/ Len(eps) = 0) /\ sc.fqdnTemplate # Nil
    THEN LET tmpl == httpProxyEndpointsFromTemplate(sc, hp, order)
         IN  IF tmpl.err THEN [err |-> TRUE, eps |-> Nil]
             ELSE IF sc.combineFQDNAnnotation THEN [err |-> FALSE, eps |-> eps \o tmpl.eps]
             ELSE [err |-> FALSE, eps |-> tmpl.eps]
    ELSE [err |-> FALSE, eps |-> eps]

\* A variant that renders the template before the filter is applied.
httpProxyLoopBody_RenderFirst(sc, hp, orders) ==
    IF sc.fqdnTemplate # Nil /\ Execute(sc.fqdnTemplate, hp).err THEN Fail
    ELSE IF ~httpProxyKept(sc, hp) THEN Skip
    ELSE LET own == endpointsFromHTTPProxy(sc, hp, orders[1])
         IN  IF own.err THEN Fail
             ELSE LET all == httpProxyCombine(sc, hp, own.eps, orders[2])
                  IN  IF all.err THEN Fail
                      ELSE IF Len(all.eps) = 0 THEN Skip
                      ELSE Merge(httpProxySetResourceLabel(hp, all.eps))

\* A variant that takes an object without endpoints for an error.
httpProxyLoopBody_FailOnEmpty(sc, hp, orders) ==
    IF ~httpProxyKept(sc, hp) THEN Skip
    ELSE LET own == endpointsFromHTTPProxy(sc, hp, orders[1])
         IN  IF own.err THEN Fail
             ELSE LET all == httpProxyCombine(sc, hp, own.eps, orders[2])
                  IN  IF all.err THEN Fail
                      ELSE IF Len(all.eps) = 0 THEN Fail
                      ELSE Merge(httpProxySetResourceLabel(hp, all.eps))

httpProxyLoopBody(sc, hp, orders) ==
    IF ~httpProxyKept(sc, hp) THEN Skip
    ELSE LET own == endpointsFromHTTPProxy(sc, hp, orders[1])
         IN  IF own.err THEN Fail
             ELSE LET all == httpProxyCombine(sc, hp, own.eps, orders[2])
                  IN  IF all.err THEN Fail
                      ELSE IF Len(all.eps) = 0 THEN Skip
                      ELSE Merge(httpProxySetResourceLabel(hp, all.eps))

-----------------------------------------------------------------------------
(* Contour IngressRoute source *)

ingressRouteKind == <<"i", "n", "g", "r", "e", "s", "s", "r", "o", "u", "t", "e">>

\* A variant with the name before the namespace.
ingressRouteSetResourceLabel_Swapped(ingressRoute, eps) ==
    setLabel(eps, ResourceLabelKey,
             ingressRouteKind \o <<"/">> \o ingressRoute.Name \o <<"/">> \o ingressRoute.Namespace)

ingressRouteSetResourceLabel(ingressRoute, eps) ==
    setLabel(eps, ResourceLabelKey, resourceLabel(ingressRouteKind, ingressRoute))

\* The service lister's Get: services is a function from <<namespace, name>>
\* to the service; an absent key is a not-found error.
\* A variant that returns the lister's error.
targetsFromContourLoadBalancer_Strict(sc, services) ==
    IF <<sc.lbService.Namespace, sc.lbService.Name>> \notin DOMAIN services
    THEN [err |-> TRUE, targets |-> Nil]
    ELSE [err |-> FALSE,
          targets |-> lbTargets(services[<<sc.lbService.Namespace, sc.lbService.Name>>].Ingress)]

targetsFromContourLoadBalancer(sc, services) ==
    IF <<sc.lbService.Namespace, sc.lbService.Name>> \notin DOMAIN services
    THEN [err |-> FALSE, targets |-> Nil]
    ELSE [err |-> FALSE,
          targets |-> lbTargets(services[<<sc.lbService.Namespace, sc.lbService.Name>>].Ingress)]

ingressRouteTargets(sc, services, route) ==
    LET targets == getTargetsFromTargetAnnotation(route.Annotations)
    IN  IF Len(targets) = 0 THEN targetsFromContourLoadBalancer(sc, services)
        ELSE [err |-> FALSE, targets |-> targets]

ingressRouteEndpointsFromTemplate(sc, services, ingressRoute, order) ==
    LET exec == Execute(sc.fqdnTemplate, ingressRoute)
        ttl == getTTLFromAnnotations(ingressRoute.Annotations).ttl
        targets == ingressRouteTargets(sc, services, ingressRoute)
        ps == getProviderSpecificAnnotations(ingressRoute.Annotations, order)
    IN  IF exec.err \/ targets.err THEN [err |-> TRUE, eps |-> Nil]
        ELSE [err |-> FALSE,
              eps |-> endpointsForHostnames(templateHostnames(exec.out), targets.targets, ttl,
                                            ps.providerSpecific, ps.setIdentifier)]

endpointsFromIngressRoute(sc, services, route, order) ==
    IF route.CurrentStatus # "valid" THEN [err |-> FALSE, eps |-> Nil]
    ELSE LET ttl == getTTLFromAnnotations(route.Annotations).ttl
             targets == ingressRouteTargets(sc, services, route)
             ps == getProviderSpecificAnnotations(route.Annotations, order)
             native ==
                 IF route.VirtualHost # Nil /\ route.VirtualHost[1].Fqdn # <<>>
                 THEN endpointsForHostname(route.VirtualHost[1].Fqdn, targets.targets, ttl,
                                           ps.providerSpecific, ps.setIdentifier)
                 ELSE <<>>
             aliases ==
                 IF ~sc.ignoreHostnameAnnotation
                 THEN endpointsForHostnames(getHostnamesFromAnnotations(route.Annotations),
                                            targets.targets, ttl, ps.providerSpecific, ps.setIdentifier)
                 ELSE <<>>
         IN  IF targets.err THEN [err |-> TRUE, eps |-> Nil]
             ELSE [err |-> FALSE, eps |-> native \o aliases]

\* A variant of the filter without the status.
ingressRouteKept_AnyStatus(sc, rt) ==
    /\ SelectorMatches(sc.annotationSelector, rt.Annotations)
    /\ ~(controllerAnnotationKey \in DOMAIN rt.Annotations
         /\ rt.Annotations[controllerAnnotationKey] # controllerAnnotationValue)

ingressRouteKept(sc, rt) ==
    /\ SelectorMatches(sc.annotationSelector, rt.Annotations)
    /\ ~(controllerAnnotationKey \in DOMAIN rt.Annotations
         /\ rt.Annotations[controllerAnnotationKey] # controllerAnnotationValue)
    /\ rt.CurrentStatus = "valid"

ingressRouteCombine(sc, services, rt, eps, order) ==
    IF (sc.combineFQDNAnnotation \/ Len(eps) = 0) /\ sc.fqdnTemplate # Nil
    THEN LET tmpl == ingressRouteEndpointsFromTemplate(sc, services, rt, order)
         IN  IF tmpl.err THEN [err |-> TRUE, eps |-> Nil]
             ELSE IF sc.combineFQDNAnnotation THEN [err |-> FALSE, eps |-> eps \o tmpl.eps]
             ELSE [err |-> FALSE, eps |-> tmpl.eps]
    ELSE [err |-> FALSE, eps |-> eps]

\* The body of the loop of Endpoints.  The service store is read twice,
\* by endpointsFromIngressRoute and later by endpointsFromTemplate, and
\* the informer can replace the service between the two: services is the
\* store as the first lookup finds it, later as the second does.
ingressRouteLoopBody(sc, services, later, rt, orders) ==
    IF ~ingressRouteKept(sc, rt) THEN Skip
    ELSE LET own == endpointsFromIngressRoute(sc, services, rt, orders[1])
         IN  IF own.err THEN Fail
             ELSE LET all == ingressRouteCombine(sc, later, rt, own.eps, orders[2])
                  IN  IF all.err THEN Fail
                      ELSE IF Len(all.eps) = 0 THEN Skip
                      ELSE Merge(ingressRouteSetResourceLabel(rt, all.eps))

-----------------------------------------------------------------------------
(* Kong TCPIngress source *)

tcpIngressKind == <<"t", "c", "p", "i", "n", "g", "r", "e", "s", "s">>

ALBDualstackAnnotationValue == <<"d", "u", "a", "l", "s", "t", "a", "c", "k">>
DualstackLabelKey == "dualstack"
labelTrue == <<"t", "r", "u", "e">>

kongSetResourceLabel(tcpIngress, eps) ==
    setLabel(eps, ResourceLabelKey, resourceLabel(tcpIngressKind, tcpIngress))

kongSetDualstackLabel(tcpIngress, eps) ==
    IF /\ ALBDualstackAnnotationKey \in DOMAIN tcpIngress.Annotations
       /\ tcpIngress.Annotations[ALBDualstackAnnotationKey] = ALBDualstackAnnotationValue
    THEN setLabel(eps, DualstackLabelKey, labelTrue)
    ELSE eps

\* The hosts of the rules, those that are not empty, in rule order.
ruleHosts(rules) ==
    LET nonEmpty == SelectSeq(rules, LAMBDA rule : rule.Host # <<>>)
    IN  [i \in 1..Len(nonEmpty) |-> nonEmpty[i].Host]

endpointsFromTCPIngress(tcpIngress, targets, order) ==
    LET ttl == getTTLFromAnnotations(tcpIngress.Annotations)
        ps == getProviderSpecificAnnotations(tcpIngress.Annotations, order)
        aliases == endpointsForHostnames(getHostnamesFromAnnotations(tcpIngress.Annotations),
                                         targets, ttl.ttl, ps.providerSpecific, ps.setIdentifier)
        native == endpointsForHostnames(ruleHosts(tcpIngress.Rules),
                                        targets, ttl.ttl, ps.providerSpecific, ps.setIdentifier)
    IN  IF ttl.err THEN [err |-> TRUE, eps |-> Nil]
        ELSE [err |-> FALSE, eps |-> aliases \o native]

kongLoopBody(sc, ti, orders) ==
    IF ~SelectorMatches(sc.annotationSelector, ti.Annotations) THEN Skip
    ELSE LET targets == lbTargets(ti.LoadBalancer)
             own == endpointsFromTCPIngress(ti, targets, orders[1])
         IN  IF own.err THEN Fail
             ELSE IF Len(own.eps) = 0 THEN Skip
             ELSE Merge(kongSetDualstackLabel(ti, kongSetResourceLabel(ti, own.eps)))

-----------------------------------------------------------------------------
(* Ambassador Host source *)

\* A variant that takes a reference it cannot parse for one without
\* targets.
targetsFromAmbassadorLoadBalancer_Lenient(services, service) ==
    LET ref == parseAmbLoadBalancerService(service)
    IN  IF ref.err THEN [err |-> FALSE, targets |-> Nil]
        ELSE IF <<ref.namespace, ref.name>> \notin DOMAIN services
        THEN [err |-> TRUE, targets |-> Nil]
        ELSE [err |-> FALSE, targets |-> lbTargets(services[<<ref.namespace, ref.name>>].Ingress)]

\* kubeClient.CoreV1().Services(namespace).Get(name): an absent service is
\* an error, returned to the caller of Endpoints.
targetsFromAmbassadorLoadBalancer(services, service) ==
    LET ref == parseAmbLoadBalancerService(service)
    IN  IF ref.err THEN [err |-> TRUE, targets |-> Nil]
        ELSE IF <<ref.namespace, ref.name>> \notin DOMAIN services
        THEN [err |-> TRUE, targets |-> Nil]
        ELSE [err |-> FALSE, targets |-> lbTargets(services[<<ref.namespace, ref.name>>].Ingress)]

endpointsFromHost(host, targets) ==
    LET ttl == getTTLFromAnnotations(host.Annotations)
    IN  IF ttl.err THEN [err |-> TRUE, eps |-> Nil]
        ELSE IF host.Spec # Nil /\ host.Spec[1].Hostname # <<>>
        THEN [err |-> FALSE,
              eps |-> endpointsForHostname(host.Spec[1].Hostname, targets, ttl.ttl, <<>>, <<>>)]
        ELSE [err |-> FALSE, eps |-> Nil]

ambassadorLoopBody(services, host) ==
    IF ambHostAnnotation \notin DOMAIN host.Annotations THEN Skip
    ELSE LET targets == targetsFromAmbassadorLoadBalancer(services, host.Annotations[ambHostAnnotation])
         IN  IF targets.err THEN Fail
             ELSE LET hostEndpoints == endpointsFromHost(host, targets.targets)
                  IN  IF hostEndpoints.err THEN Fail
                      ELSE IF Len(hostEndpoints.eps) = 0 THEN Skip
                      ELSE Merge(hostEndpoints.eps)

-----------------------------------------------------------------------------
(* Gloo Proxy source *)

virtualServiceKind == "*v1.VirtualService"
ServiceTypeLoadBalancer == "LoadBalancer"

\* Every VirtualService is fetched by a request of its own
\* (glooClient ... VirtualServices(ns).Get), and the cluster can change
\* between two requests: in the operators below virtualServices is the
\* sequence of the states of the VirtualServices at the successive requests
\* of one iteration, the first request reading the head.

\* The number of requests the sources of a virtual host take.
Requests(sources) == Len(SelectSeq(sources, LAMBDA src : src.Kind = virtualServiceKind))

\* A variant in which the annotation of an earlier source is kept.
RECURSIVE annotationsFromSources_FirstWins(_, _, _)
annotationsFromSources_FirstWins(virtualServices, sources, annotations) ==
    IF sources = <<>> THEN [err |-> FALSE, annotations |-> annotations]
    ELSE LET src == Head(sources)
         IN  IF src.Kind # virtualServiceKind
             THEN annotationsFromSources_FirstWins(virtualServices, Tail(sources), annotations)
             ELSE IF <<src.Namespace, src.Name>> \notin DOMAIN Head(virtualServices)
             THEN [err |-> TRUE, annotations |-> Nil]
             ELSE LET svc == Head(virtualServices)[<<src.Namespace, src.Name>>]
                      merged == [k \in DOMAIN annotations \cup DOMAIN svc |->
                                    IF k \in DOMAIN annotations THEN annotations[k] ELSE svc[k]]
                  IN  annotationsFromSources_FirstWins(Tail(virtualServices), Tail(sources), merged)

\* The annotations of the VirtualService sources of a virtual host, merged
\* in source order; a source that is not found is an error.
RECURSIVE annotationsFromSources(_, _, _)
annotationsFromSources(virtualServices, sources, annotations) ==
    IF sources = <<>> THEN [err |-> FALSE, annotations |-> annotations]
    ELSE LET src == Head(sources)
         IN  IF src.Kind # virtualServiceKind
             THEN annotationsFromSources(virtualServices, Tail(sources), annotations)
             ELSE IF <<src.Namespace, src.Name>> \notin DOMAIN Head(virtualServices)
             THEN [err |-> TRUE, annotations |-> Nil]
             ELSE LET svc == Head(virtualServices)[<<src.Namespace, src.Name>>]
                      merged == [k \in DOMAIN annotations \cup DOMAIN svc |->
                                    IF k \in DOMAIN svc THEN svc[k] ELSE annotations[k]]
                  IN  annotationsFromSources(Tail(virtualServices), Tail(sources), merged)

annotationsFromVirtualHost(virtualServices, vhost) ==
    annotationsFromSources(virtualServices, vhost.Source, [k \in {} |-> <<>>])

proxyTargets(gs, services, name) ==
    IF <<gs.namespace, name>> \notin DOMAIN services THEN [err |-> TRUE, targets |-> Nil]
    ELSE LET svc == services[<<gs.namespace, name>>]
         IN  IF svc.Type = ServiceTypeLoadBalancer
             THEN [err |-> FALSE, targets |-> lbTargets(svc.Ingress)]
             ELSE [err |-> FALSE, targets |-> Nil]

\* The virtual hosts of all listeners, in order.
RECURSIVE proxyVirtualHosts(_)
proxyVirtualHosts(listeners) ==
    IF listeners = <<>> THEN <<>>
    ELSE Head(listeners).VirtualHosts \o proxyVirtualHosts(Tail(listeners))

\* The metadata sources of all virtual hosts, in order.
RECURSIVE virtualHostSources(_)
virtualHostSources(vhosts) ==
    IF vhosts = <<>> THEN <<>> ELSE Head(vhosts).Source \o virtualHostSources(Tail(vhosts))

proxyVirtualHostSources(listeners) == virtualHostSources(proxyVirtualHosts(listeners))

RECURSIVE endpointsFromVirtualHosts(_, _, _, _)
endpointsFromVirtualHosts(virtualServices, vhosts, targets, orders) ==
    IF vhosts = <<>> THEN [err |-> FALSE, eps |-> <<>>]
    ELSE LET vhost == Head(vhosts)
             ann == annotationsFromVirtualHost(virtualServices, vhost)
             ttl == getTTLFromAnnotations(ann.annotations)
             ps == getProviderSpecificAnnotations(ann.annotations, Head(orders))
             domains == [i \in 1..Len(vhost.Domains) |-> TrimSuffixDot(vhost.Domains[i])]
             rest == endpointsFromVirtualHosts(
                         SubSeq(virtualServices, Requests(vhost.Source) + 1, Len(virtualServices)),
                         Tail(vhosts), targets, Tail(orders))
         IN  IF ann.err THEN [err |-> TRUE, eps |-> Nil]
             ELSE IF ttl.err THEN [err |-> TRUE, eps |-> Nil]
             ELSE IF rest.err THEN [err |-> TRUE, eps |-> Nil]
             ELSE [err |-> FALSE,
                   eps |-> endpointsForHostnames(domains, targets, ttl.ttl,
                                                 ps.providerSpecific, ps.setIdentifier)
                           \o rest.eps]

endpointsFromProxy(virtualServices, proxy, targets, orders) ==
    endpointsFromVirtualHosts(virtualServices, proxyVirtualHosts(proxy.Listeners), targets, orders)

glooLoopBody(gs, services, virtualServices, p, orders) ==
    LET targets == proxyTargets(gs, services, p.Name)
    IN  IF targets.err THEN Fail
        ELSE LET eps == endpointsFromProxy(virtualServices, p, targets.targets, orders)
             IN  IF eps.err THEN Fail ELSE Merge(eps.eps)

-----------------------------------------------------------------------------
(* Input values: the strings used by the objects of the snapshots *)

s_foo_bar == <<"f", "o", "o", ".", "b", "a", "r">>
s_a_com == <<"a", ".", "c", "o", "m">>
s_b_org == <<"b", ".", "o", "r", "g">>
s_c_com == <<"c", ".", "c", "o", "m">>
s_ip8888 == <<"8", ".", "8", ".", "8", ".", "8">>
s_ip1234 == <<"1", ".", "2", ".", "3", ".", "4">>
s_ip127 == <<"1", "2", "7", ".", "0", ".", "0", ".", "1">>
s_ip9999 == <<"9", ".", "9", ".", "9", ".", "9">>
s_elb_com == <<"e", "l", "b", ".", "c", "o", "m">>
s_alb_com == <<"a", "l", "b", ".", "c", "o", "m">>
s_twoIPs == <<"9", ".", "9", ".", "9", ".", "9", ",", " ", "1", ".", "2", ".", "3", ".", "4">>
s_mixedTargets == <<"e", "l", "b", ".", "c", "o", "m", ",", "1", ".", "2", ".", "3", ".", "4">>
s_twoHosts == <<"b", ".", "o", "r", "g", ".", ",", " ", "a", ".", "c", "o", "m">>
s_contour == <<"c", "o", "n", "t", "o", "u", "r">>
s_nginx == <<"n", "g", "i", "n", "x">>
s_other == <<"o", "t", "h", "e", "r">>
s_ttl10s == <<"1", "0", "s">>
s_ttl2m == <<"2", "m">>
s_ttlBad == <<"s", "o", "o", "n">>
s_weight == <<"1", "0">>
s_LU == <<"L", "U">>
s_JP == <<"J", "P">>
s_setB == <<"b", "l", "u", "e">>
s_x == <<"x">>
s_y == <<"y">>
s_z == <<"z">>
s_w == <<"w">>
s_fake1 == <<"f", "a", "k", "e", "1">>
s_ns == <<"n", "s">>
s_lb == <<"l", "b">>
s_vs == <<"v", "s">>
s_gone == <<"g", "o", "n", "e">>
s_ref_bare == <<"l", "b">>
s_ref_slash == <<"n", "s", "/", "l", "b">>
s_ref_dot == <<"l", "b", ".", "n", "s">>
s_ref_bad == <<"a", "/", "b", "/", "c">>
s_ref_gone == <<"n", "s", "/", "g", "o", "n", "e">>
s_ns1_svc1 == <<"n", "s", "1", "/", "s", "v", "c", "1">>
s_svc1_ns1 == <<"s", "v", "c", "1", ".", "n", "s", "1">>
s_svc1 == <<"s", "v", "c", "1">>
s_ns1 == <<"n", "s", "1">>
s_dot_a_com == <<".", "a", ".", "c", "o", "m">>
s_dot_a_com_comma_space == <<".", "a", ".", "c", "o", "m", ",", " ">>
s_dot_b_com == <<".", "b", ".", "c", "o", "m">>
s_dot_ext_dns_test_com == <<".", "e", "x", "t", "-", "d", "n", "s", ".", "t", "e", "s", "t", ".", "c", "o", "m">>
s_x_a_com == <<"x", ".", "a", ".", "c", "o", "m">>
s_x_b_com == <<"x", ".", "b", ".", "c", "o", "m">>
s_fake1_ext_dns_test_com == <<"f", "a", "k", "e", "1", ".", "e", "x", "t", "-", "d", "n", "s", ".", "t", "e", "s", "t", ".", "c", "o", "m">>

NoAnnotations == [k \in {} |-> <<>>]

\* Names of the listed objects, by position in the list: the informer cache
\* is keyed by namespace/name, so no two listed objects share both.
Names == <<s_x, s_y, s_z, s_w>>

Named(shape, i) == [shape EXCEPT !.Name = Names[i]]

-----------------------------------------------------------------------------
(* Snapshots *)

IP(ip) == [IP |-> ip, Hostname |-> <<>>]
Host(h) == [IP |-> <<>>, Hostname |-> h]

OneIP == <<IP(s_ip8888)>>
\* a status whose entries are neither sorted nor of one kind
MixedLB == <<IP(s_ip8888), [IP |-> s_ip127, Hostname |-> s_elb_com], Host(s_alb_com)>>

HTTPProxyObj(annotations, status, vhost, lb) ==
    [Name |-> <<>>, Namespace |-> NamespaceDefault, Annotations |-> annotations,
     CurrentStatus |-> status, VirtualHost |-> vhost, LoadBalancer |-> lb]

Fqdn(h) == <<[Fqdn |-> h]>>

\* HTTPProxy objects: listed alone, each of HTTPProxyShapes; listed with
\* others, each of HTTPProxyPairShapes.
HTTPProxyPairShapes ==
    { HTTPProxyObj(NoAnnotations, "valid", Fqdn(s_foo_bar), OneIP),
      HTTPProxyObj(ingressClassKey :> s_contour, "valid", Nil, MixedLB),
      HTTPProxyObj(controllerAnnotationKey :> s_other @@ hostnameAnnotationKey :> s_a_com
                       @@ targetAnnotationKey :> s_ip1234,
                   "valid", Fqdn(s_foo_bar), OneIP),
      HTTPProxyObj(NoAnnotations, "invalid", Fqdn(s_foo_bar), OneIP),
      HTTPProxyObj(targetAnnotationKey :> s_mixedTargets @@ hostnameAnnotationKey :> s_twoHosts
                       @@ ingressClassKey :> s_contour,
                   "valid", Fqdn(s_c_com), OneIP) }

HTTPProxyShapes ==
    HTTPProxyPairShapes \cup
    { HTTPProxyObj(NoAnnotations, "valid", Nil, OneIP),
      HTTPProxyObj(NoAnnotations, "valid", Fqdn(<<>>), MixedLB),
      HTTPProxyObj(ingressClassKey :> s_nginx, "valid", Fqdn(s_foo_bar), OneIP),
      HTTPProxyObj(controllerAnnotationKey :> controllerAnnotationValue, "valid", Fqdn(s_foo_bar), MixedLB),
      HTTPProxyObj(ingressClassKey :> s_contour, "", Nil, OneIP),
      HTTPProxyObj(targetAnnotationKey :> s_twoIPs, "valid", Fqdn(s_foo_bar), MixedLB),
      HTTPProxyObj(targetAnnotationKey :> <<>>, "valid", Fqdn(s_foo_bar), OneIP),
      HTTPProxyObj(hostnameAnnotationKey :> s_twoHosts, "valid", Fqdn(s_foo_bar), MixedLB),
      HTTPProxyObj(hostnameAnnotationKey :> s_a_com, "valid", Nil, <<>>),
      HTTPProxyObj(NoAnnotations, "valid", Fqdn(s_foo_bar), <<>>),
      HTTPProxyObj(ttlAnnotationKey :> s_ttl10s @@ awsWeightKey :> s_weight
                     @@ awsGeolocationCountryCodeKey :> s_LU @@ SetIdentifierKey :> s_setB,
                   "valid", Fqdn(s_foo_bar), OneIP),
      HTTPProxyObj(ttlAnnotationKey :> s_ttlBad, "valid", Fqdn(s_foo_bar), OneIP) }

\* The lists of at most n objects: any one shape, or several pair shapes.
RECURSIVE ListsOf(_, _)
ListsOf(shapes, n) ==
    IF n = 0 THEN {<<>>}
    ELSE LET shorter == ListsOf(shapes, n - 1)
         IN  shorter \cup {Append(l, Named(r, n)) : l \in {k \in shorter : Len(k) = n - 1}, r \in shapes}

Lists(shapes, pairShapes) ==
    {<<Named(r, 1)>> : r \in shapes} \cup ListsOf(pairShapes, MaxResources)

NoServices == [k \in {} |-> <<>>]

Snapshot(resources, services, virtualServices) ==
    [resources |-> resources, services |-> services, virtualServices |-> virtualServices]

\* Templates: none, one hostname, two hostnames, one that fails to render
\* for an object without virtual host ("{{.Name}}.{{.Spec.VirtualHost.Fqdn}}"),
\* and one hostname followed by a comma ("{{.Name}}.a.com,").
NameNode == [field |-> <<s_Name>>]
Templates ==
    { Nil,
      <<NameNode, [text |-> s_dot_a_com]>>,
      <<NameNode, [text |-> s_dot_a_com_comma_space], NameNode, [text |-> s_dot_b_com]>>,
      <<NameNode, [text |-> <<".">>], [field |-> <<s_Spec, s_VirtualHost, s_Fqdn>>]>>,
      <<NameNode, [text |-> s_dot_a_com \o <<",">>]>> }

Everything == {}
ClassIsContour == {[key |-> ingressClassKey, op |-> "in", values |-> {s_contour}]}

ContourLBService == [Namespace |-> s_ns, Name |-> s_lb]

\* The source struct of the two Contour sources.  The annotation filter is
\* varied with the hostname annotation in use only.
ContourConfigs ==
    { c \in [fqdnTemplate : Templates, combineFQDNAnnotation : BOOLEAN,
             ignoreHostnameAnnotation : BOOLEAN,
             annotationSelector : {Everything, ClassIsContour},
             lbService : {ContourLBService}, namespace : {<<>>}] :
        /\ c.annotationSelector = Everything \/ ~c.ignoreHostnameAnnotation }

Service(type, ingress) == [Type |-> type, Ingress |-> ingress]

\* IngressRoute objects: those of the HTTPProxy lists without the status's
\* load balancer, which an IngressRoute does not have.
IngressRouteObj(hp) ==
    [Name |-> hp.Name, Namespace |-> hp.Namespace, Annotations |-> hp.Annotations,
     CurrentStatus |-> hp.CurrentStatus, VirtualHost |-> hp.VirtualHost]

IngressRouteShapes == {IngressRouteObj(hp) : hp \in HTTPProxyShapes}
IngressRoutePairShapes == {IngressRouteObj(hp) : hp \in HTTPProxyPairShapes}

\* The service cache of the IngressRoute source: without the load-balancer
\* service, or with it.
ContourServices ==
    { NoServices,
      <<s_ns, s_lb>> :> Service(ServiceTypeLoadBalancer, OneIP),
      <<s_ns, s_lb>> :> Service(ServiceTypeLoadBalancer, MixedLB) }

TCPIngressObj(annotations, lb, rules) ==
    [Name |-> <<>>, Namespace |-> NamespaceDefault, Annotations |-> annotations,
     LoadBalancer |-> lb, Rules |-> rules]

Rule(h) == [Host |-> h]

TCPIngressPairShapes ==
    { TCPIngressObj(NoAnnotations, MixedLB, <<Rule(s_foo_bar), Rule(<<>>), Rule(s_c_com)>>),
      TCPIngressObj(hostnameAnnotationKey :> s_twoHosts @@ ingressClassKey :> s_contour,
                    OneIP, <<Rule(s_foo_bar)>>),
      TCPIngressObj(ttlAnnotationKey :> s_ttlBad, OneIP, <<Rule(s_foo_bar)>>),
      TCPIngressObj(controllerAnnotationKey :> s_other, OneIP, <<Rule(s_c_com)>>) }

TCPIngressShapes ==
    TCPIngressPairShapes \cup
    { TCPIngressObj(ALBDualstackAnnotationKey :> ALBDualstackAnnotationValue, OneIP, <<Rule(s_foo_bar)>>),
      TCPIngressObj(hostnameAnnotationKey :> s_a_com, MixedLB, <<>>),
      TCPIngressObj(NoAnnotations, <<>>, <<Rule(s_foo_bar)>>),
      TCPIngressObj(ttlAnnotationKey :> s_ttl2m @@ awsWeightKey :> s_weight
                      @@ awsGeolocationCountryCodeKey :> s_JP, OneIP, <<Rule(s_foo_bar)>>) }

KongConfigs ==
    [annotationSelector : {Everything, ClassIsContour}, namespace : {<<>>}]

HostObj(annotations, spec) ==
    [Name |-> <<>>, Namespace |-> NamespaceDefault, Annotations |-> annotations, Spec |-> spec]

HostSpec(h) == <<[Hostname |-> h]>>

HostPairShapes ==
    { HostObj(ambHostAnnotation :> s_ref_bare, HostSpec(s_foo_bar)),
      HostObj(ambHostAnnotation :> s_ref_slash, HostSpec(s_a_com)),
      HostObj(ambHostAnnotation :> s_ref_bad, HostSpec(s_c_com)),
      HostObj(ambHostAnnotation :> s_ref_gone, HostSpec(s_c_com)),
      HostObj(NoAnnotations, HostSpec(s_b_org)) }

HostShapes ==
    HostPairShapes \cup
    { HostObj(ambHostAnnotation :> s_ref_dot, HostSpec(s_foo_bar)),
      HostObj(ambHostAnnotation :> s_ref_bare, Nil),
      HostObj(ambHostAnnotation :> s_ref_bare, HostSpec(<<>>)),
      HostObj(ambHostAnnotation :> s_ref_bare @@ ttlAnnotationKey :> s_ttlBad, HostSpec(s_foo_bar)),
      HostObj(ambHostAnnotation :> s_ref_bare @@ ttlAnnotationKey :> s_ttl10s, HostSpec(s_foo_bar)),
      HostObj(ambHostAnnotation :> s_ref_slash @@ controllerAnnotationKey :> s_other, HostSpec(s_foo_bar)) }

AmbassadorServices ==
    { <<NamespaceDefault, s_lb>> :> Service(ServiceTypeLoadBalancer, MixedLB)
        @@ <<s_ns, s_lb>> :> Service(ServiceTypeLoadBalancer, OneIP),
      <<s_ns, s_lb>> :> Service(ServiceTypeLoadBalancer, <<>>) }

AmbassadorConfigs == [namespace : {<<>>}]

ProxyObj(listeners) ==
    [Name |-> <<>>, Namespace |-> s_ns, Annotations |-> NoAnnotations, Listeners |-> listeners]

Listener(vhosts) == [VirtualHosts |-> vhosts]
VirtualHost(domains, sources) == [Domains |-> domains, Source |-> sources]
MetadataSource(kind, namespace, name) == [Kind |-> kind, Namespace |-> namespace, Name |-> name]

UnknownSource == MetadataSource("*v1.Unknown", s_ns, s_gone)
FoundSource == MetadataSource(virtualServiceKind, s_ns, s_vs)
MissingSource == MetadataSource(virtualServiceKind, s_ns, s_gone)
SecondSource == MetadataSource(virtualServiceKind, s_ns, s_lb)

ProxyPairShapes ==
    { ProxyObj(<<Listener(<<VirtualHost(<<s_a_com, s_b_org \o <<".">>>>, <<UnknownSource>>),
                            VirtualHost(<<s_c_com>>, <<FoundSource>>)>>)>>),
      ProxyObj(<<Listener(<<VirtualHost(<<s_foo_bar>>, <<>>)>>)>>),
      ProxyObj(<<Listener(<<VirtualHost(<<s_foo_bar>>, <<MissingSource>>)>>)>>) }

ProxyShapes ==
    ProxyPairShapes \cup
    { ProxyObj(<<>>),
      [ProxyObj(<<Listener(<<VirtualHost(<<s_foo_bar>>, <<>>)>>)>>)
          EXCEPT !.Annotations = controllerAnnotationKey :> s_other],
      ProxyObj(<<Listener(<<>>), Listener(<<VirtualHost(<<s_a_com>>, <<FoundSource, UnknownSource>>)>>)>>),
      ProxyObj(<<Listener(<<VirtualHost(<<s_a_com, s_c_com>>, <<FoundSource, SecondSource>>),
                            VirtualHost(<<s_b_org>>, <<SecondSource, FoundSource>>)>>)>>) }

\* The service cache of the Gloo source: a service for the first proxy, for
\* the first two, of another type, or none.
GlooServices ==
    { NoServices,
      <<s_ns, s_x>> :> Service(ServiceTypeLoadBalancer, <<Host(s_elb_com), Host(s_alb_com)>>),
      <<s_ns, s_x>> :> Service(ServiceTypeLoadBalancer, MixedLB)
        @@ <<s_ns, s_y>> :> Service(ServiceTypeLoadBalancer, OneIP),
      <<s_ns, s_x>> :> Service("ClusterIP", OneIP) }

GlooVirtualServices ==
    { <<s_ns, s_vs>> :> (ttlAnnotationKey :> s_ttl10s @@ awsGeolocationCountryCodeKey :> s_LU
                           @@ SetIdentifierKey :> s_setB),
      <<s_ns, s_vs>> :> (ttlAnnotationKey :> s_ttlBad),
      <<s_ns, s_vs>> :> (ttlAnnotationKey :> s_ttl10s @@ SetIdentifierKey :> s_setB)
        @@ <<s_ns, s_lb>> :> (ttlAnnotationKey :> s_ttl2m @@ awsGeolocationCountryCodeKey :> s_JP
                                @@ awsWeightKey :> s_weight) }

GlooConfigs == [namespace : {s_ns}]

-----------------------------------------------------------------------------
(* The Endpoints pass *)

NoReturn == [called |-> FALSE, endpoints |-> Nil, err |-> FALSE]

\* env records what happens around the pass, for the properties to refer
\* to:
\*   changes  the number of events around the passes so far: the store
\*            holding other objects than before, the caller cancelling the
\*            context of a call;
\*   changed  whether the store has changed since lister.List of the
\*            running (or last) call;
\*   again    whether lister.List of the running (or last) call found what
\*            that of the call before had found, nothing having changed or
\*            failed in between;
\*   fault    "list" when the lister of the call failed, "request" when a
\*            request to the API server did, else "none".
NoEvents == [changes |-> 0, changed |-> FALSE, again |-> FALSE, fault |-> "none"]

\* What belongs to one call of Endpoints and its caller: the position of
\* the call, its locals (the slice of listed objects, the accumulator), its
\* context and what the caller has been returned.  A caller that has not
\* called yet has none of it.
NoCall ==
    [pc |-> "idle", idx |-> 0, endpoints |-> <<>>, origins |-> <<>>, ctx |-> "live",
     returned |-> NoReturn, previous |-> NoReturn, resources |-> <<>>]

\* No call is running and no return is kept; the environment has seen the
\* events given and the count of the calls stands at n.
IdleAfter(events, n) ==
    /\ pc = "idle" /\ idx = 0 /\ endpoints = <<>> /\ origins = <<>>
    /\ returned = NoReturn /\ previous = NoReturn /\ passes = n
    /\ arg = <<>> /\ out = <<>>
    /\ ctx = "live"
    /\ env = events
    /\ other = NoCall

Idle == IdleAfter(NoEvents, 0)

InitHTTPProxy ==
    /\ source = "httpproxy"
    /\ config \in ContourConfigs
    /\ cache \in {Snapshot(l, NoServices, NoServices) : l \in Lists(HTTPProxyShapes, HTTPProxyPairShapes)}

InitIngressRoute ==
    /\ source = "ingressroute"
    /\ config \in ContourConfigs
    /\ cache \in {Snapshot(l, svcs, NoServices) :
                    l \in Lists(IngressRouteShapes, IngressRoutePairShapes), svcs \in ContourServices}

InitKong ==
    /\ source = "kong"
    /\ config \in KongConfigs
    /\ cache \in {Snapshot(l, NoServices, NoServices) : l \in Lists(TCPIngressShapes, TCPIngressPairShapes)}

InitAmbassador ==
    /\ source = "ambassador"
    /\ config \in AmbassadorConfigs
    /\ cache \in {Snapshot(l, svcs, NoServices) :
                    l \in Lists(HostShapes, HostPairShapes), svcs \in AmbassadorServices}

InitGloo ==
    /\ source = "gloo"
    /\ config \in GlooConfigs
    /\ cache \in {Snapshot(l, svcs, vss) :
                    l \in Lists(ProxyShapes, ProxyPairShapes),
                    svcs \in GlooServices, vss \in GlooVirtualServices}

Snapshots == InitHTTPProxy \/ InitIngressRoute \/ InitKong \/ InitAmbassador \/ InitGloo

Init == Snapshots /\ Idle

\* The objects that an event of the cluster creates, or puts in the place
\* of an object of the store.
EventShapes ==
    CASE source = "httpproxy" -> HTTPProxyPairShapes
      [] source = "ingressroute" -> IngressRoutePairShapes
      [] source = "kong" -> TCPIngressPairShapes
      [] source = "ambassador" -> HostPairShapes
      [] source = "gloo" -> ProxyPairShapes
      [] OTHER -> {}

\* The first of Names that no object of the list has.
FreeName(resources) ==
    LET used == {resources[j].Name : j \in 1..Len(resources)}
    IN  Names[CHOOSE i \in 1..Len(Names) :
                 Names[i] \notin used /\ \A k \in 1..(i - 1) : Names[k] \in used]

\* The store after a Create, a Delete, or an Update (UpdateStatus, Patch)
\* of one object has been delivered.
Created(resources) ==
    IF Len(resources) >= MaxResources THEN {}
    ELSE {Append(resources, [r EXCEPT !.Name = FreeName(resources)]) : r \in EventShapes}

Deleted(resources) ==
    {SubSeq(resources, 1, i - 1) \o SubSeq(resources, i + 1, Len(resources)) :
        i \in 1..Len(resources)}

Updated(resources) ==
    {[resources EXCEPT ![i] = [r EXCEPT !.Name = resources[i].Name]] :
        i \in 1..Len(resources), r \in EventShapes}

\* The objects of the store after one event of the cluster.
Relisted(resources) ==
    (Created(resources) \cup Deleted(resources) \cup Updated(resources)) \ {resources}

\* The orders in which lister.List can return the objects of the store: the
\* lister ranges over the map of the store, so that the order can differ
\* from one call to the next.
Reversed(resources) == [i \in 1..Len(resources) |-> resources[Len(resources) + 1 - i]]
Orders(resources) == {resources, Reversed(resources)}

\* The lists lister.List can return, in any of their orders: at the first
\* call the objects of the store (any of those of Init); at a later call
\* the objects it returned before or, as long as the bound on the events
\* allows, those after an event.
Listings ==
    UNION {Orders(store) :
              store \in {cache.resources}
                  \cup (IF passes >= 1 /\ env.changes < MaxChanges
                        THEN Relisted(cache.resources) ELSE {})}

AfterList(l) ==
    [changes |-> IF l \in Orders(cache.resources) THEN env.changes ELSE env.changes + 1,
     changed |-> FALSE,
     again |-> passes >= 1 /\ l = cache.resources /\ ~env.changed /\ env.fault = "none",
     fault |-> "none"]

\* A call of Endpoints whose lister succeeds: it returns the objects of the
\* store at that moment, in the order of that call, and the accumulator
\* starts empty.
List ==
    /\ pc \in {"idle", "done"}
    /\ passes < MaxPasses
    /\ \E l \in Listings :
          /\ cache' = [cache EXCEPT !.resources = l]
          /\ env' = AfterList(l)
    /\ pc' = "loop"
    /\ idx' = 1
    /\ endpoints' = <<>>
    /\ origins' = <<>>
    /\ ctx' = "live"
    /\ UNCHANGED <<source, config, other, returned, previous, passes, arg, out>>

\* return eps, err
Return(eps, err) ==
    /\ pc' = "done"
    /\ returned' = [called |-> TRUE, endpoints |-> eps, err |-> err]
    /\ previous' = returned
    /\ passes' = passes + 1

\* A call of Endpoints whose lister fails: if err != nil { return nil, err }
\* before the loop.
ListError ==
    /\ pc \in {"idle", "done"}
    /\ passes < MaxPasses
    /\ Return(Nil, TRUE)
    /\ idx' = 0
    /\ endpoints' = <<>>
    /\ origins' = <<>>
    /\ ctx' = "live"
    /\ env' = [env EXCEPT !.changed = FALSE, !.again = FALSE, !.fault = "list"]
    /\ UNCHANGED <<source, config, other, cache, arg, out>>

\* A variant that returns the endpoints accumulated so far with the error.
Iterate_PartialOnError(body) ==
    CASE body.kind = "skip" ->
            /\ idx' = idx + 1
            /\ UNCHANGED <<pc, endpoints, origins, returned, previous, passes>>
      [] body.kind = "append" ->
            /\ idx' = idx + 1
            /\ endpoints' = endpoints \o body.eps
            /\ origins' = origins \o [i \in 1..Len(body.eps) |-> idx]
            /\ UNCHANGED <<pc, returned, previous, passes>>
      [] body.kind = "error" ->
            /\ Return(endpoints, TRUE)
            /\ UNCHANGED <<idx, endpoints, origins>>

\* One iteration of the loop over the listed objects, given what its body
\* yields for the object at idx.
Iterate(body) ==
    CASE body.kind = "skip" ->
            /\ idx' = idx + 1
            /\ UNCHANGED <<pc, endpoints, origins, returned, previous, passes>>
      [] body.kind = "append" ->
            /\ idx' = idx + 1
            /\ endpoints' = endpoints \o body.eps
            /\ origins' = origins \o [i \in 1..Len(body.eps) |-> idx]
            /\ UNCHANGED <<pc, returned, previous, passes>>
      [] body.kind = "error" ->
            /\ Return(Nil, TRUE)
            /\ UNCHANGED <<idx, endpoints, origins>>

\* The orders of the n calls of getProviderSpecificAnnotations that one
\* iteration makes on the annotations of its object: one order for each
\* call.
CallOrders(annotations, n) == [1..n -> RangeOrders(annotations)]

\* The same for a proxy of the Gloo source, with one call for each of its
\* virtual hosts, on annotations merged from the VirtualServices of one of
\* the stores.
GlooCallOrders(stores, p) ==
    LET maps == UNION {Range(store) : store \in stores}
        some == IF \E m \in maps : RangeOrders(m) = MapOrders THEN MapOrders ELSE {FirstOrder}
    IN  [1..Len(proxyVirtualHosts(p.Listeners)) -> some]

InLoop(s) == source = s /\ pc = "loop" /\ idx <= Len(cache.resources)
AfterLoop(s) == source = s /\ pc = "loop" /\ idx > Len(cache.resources)

\* A variant that leaves the targets as accumulated.
sortEndpoints_None(eps) == eps

\* for _, ep := range endpoints { sort.Sort(ep.Targets) }
sortEndpoints(eps) ==
    [i \in 1..Len(eps) |-> [eps[i] EXCEPT !.Targets = SortTargets(eps[i].Targets)]]

\* A variant in which the sort also reorders the load-balancer ingress lists
\* that the targets were read from, in the listed resources and in the
\* cached services.
SortAndReturn_SortsIngress ==
    LET key(e) == e.IP \o e.Hostname
        sorted(ingress) ==
            CHOOSE s \in [1..Len(ingress) -> {ingress[j] : j \in 1..Len(ingress)}] :
                /\ {s[j] : j \in 1..Len(ingress)} = {ingress[j] : j \in 1..Len(ingress)}
                /\ \A j \in 1..(Len(ingress) - 1) : ~StrLess(key(s[j + 1]), key(s[j]))
        touched(r) ==
            IF "LoadBalancer" \in DOMAIN r
            THEN [r EXCEPT !.LoadBalancer = sorted(r.LoadBalancer)]
            ELSE r
    IN  /\ endpoints' = sortEndpoints(endpoints)
        /\ Return(sortEndpoints(endpoints), FALSE)
        /\ cache' = [cache EXCEPT
                        !.resources = [i \in 1..Len(cache.resources) |-> touched(cache.resources[i])],
                        !.services = [n \in DOMAIN cache.services |->
                                         [cache.services[n] EXCEPT !.Ingress = sorted(cache.services[n].Ingress)]]]
        /\ UNCHANGED <<source, config, other, ctx, env, idx, origins, arg, out>>

\* The end of Endpoints in the sources that sort: the targets of the
\* accumulated endpoints are sorted in place and the list is returned.
SortAndReturn ==
    /\ endpoints' = sortEndpoints(endpoints)
    /\ Return(sortEndpoints(endpoints), FALSE)
    /\ UNCHANGED <<source, config, other, cache, ctx, env, idx, origins, arg, out>>

\* One iteration of the HTTPProxy source; endpointsFromHTTPProxy and
\* endpointsFromTemplate each make the provider-specific pairs of the
\* object, in the order of their own range over its annotations.
HTTPProxyIteration ==
    /\ InLoop("httpproxy")
    /\ \E orders \in CallOrders(cache.resources[idx].Annotations, 2) :
          Iterate(httpProxyLoopBody(config, cache.resources[idx], orders))
    /\ UNCHANGED <<source, config, other, cache, ctx, env, arg, out>>

HTTPProxyReturn == AfterLoop("httpproxy") /\ SortAndReturn

\* The states of the services and of the VirtualServices that the model
\* lets the cluster take.
ServiceStores ==
    CASE source = "ingressroute" -> ContourServices
      [] source = "ambassador" -> AmbassadorServices
      [] source = "gloo" -> GlooServices
      [] OTHER -> {NoServices}

VirtualServiceStores == IF source = "gloo" THEN GlooVirtualServices ELSE {NoServices}

\* What a later lookup can find where an earlier one found store: the same,
\* or, as long as the bound on the changes allows, any of stores.
Later(store, stores) == {store} \cup (IF env.changes < MaxChanges THEN stores ELSE {})

Changed == [env EXCEPT !.changes = @ + 1, !.changed = TRUE]

\* The services or VirtualServices change (the informer of the IngressRoute
\* source delivers an update to its store; the API server that the
\* Ambassador and Gloo sources ask has new objects), between two calls or
\* between two iterations of one call.
StoreUpdate ==
    /\ pc \in {"loop", "done"}
    /\ passes < MaxPasses
    /\ env.changes < MaxChanges
    /\ \E svcs \in ServiceStores, vss \in VirtualServiceStores :
          /\ <<svcs, vss>> # <<cache.services, cache.virtualServices>>
          /\ cache' = [cache EXCEPT !.services = svcs, !.virtualServices = vss]
    /\ env' = Changed
    /\ UNCHANGED <<source, config, other, ctx, pc, idx, endpoints, origins, returned, previous,
                   passes, arg, out>>

\* One iteration of the IngressRoute source; the service can be replaced
\* between its two lookups.
IngressRouteIteration ==
    /\ InLoop("ingressroute")
    /\ \E later \in Later(cache.services, ServiceStores) :
          /\ \E orders \in CallOrders(cache.resources[idx].Annotations, 2) :
                Iterate(ingressRouteLoopBody(config, cache.services, later,
                                             cache.resources[idx], orders))
          /\ cache' = [cache EXCEPT !.services = later]
          /\ env' = IF later = cache.services THEN env ELSE Changed
    /\ UNCHANGED <<source, config, other, ctx, arg, out>>

IngressRouteReturn == AfterLoop("ingressroute") /\ SortAndReturn

KongIteration ==
    /\ InLoop("kong")
    /\ \E orders \in CallOrders(cache.resources[idx].Annotations, 1) :
          Iterate(kongLoopBody(config, cache.resources[idx], orders))
    /\ UNCHANGED <<source, config, other, cache, ctx, env, arg, out>>

KongReturn == AfterLoop("kong") /\ SortAndReturn

AmbassadorIteration ==
    /\ InLoop("ambassador")
    /\ Iterate(ambassadorLoopBody(cache.services, cache.resources[idx]))
    /\ UNCHANGED <<source, config, other, cache, ctx, env, arg, out>>

AmbassadorReturn == AfterLoop("ambassador") /\ SortAndReturn

\* A request to the API server fails (the context is cancelled or past its
\* deadline, the server cannot be reached): the error is returned.
RequestFails ==
    /\ Return(Nil, TRUE)
    /\ env' = [env EXCEPT !.fault = "request"]
    /\ UNCHANGED <<source, config, other, cache, ctx, idx, endpoints, origins, arg, out>>

\* The request for the service of a Host fails: the Host has the
\* annotation and its reference parses, so that the request is made.
AmbassadorRequestFails ==
    /\ InLoop("ambassador")
    /\ ambHostAnnotation \in DOMAIN cache.resources[idx].Annotations
    /\ ~parseAmbLoadBalancerService(cache.resources[idx].Annotations[ambHostAnnotation]).err
    /\ RequestFails

\* The number of requests for VirtualServices that a proxy takes.
ProxyRequests(p) ==
    Len(SelectSeq(proxyVirtualHostSources(p.Listeners), LAMBDA src : src.Kind = virtualServiceKind))

\* The states of the VirtualServices at n requests of which the first k
\* are answered before a change and the others after it.
Successive(before, after, k, n) == [i \in 1..n |-> IF i <= k THEN before ELSE after]

\* One iteration of the Gloo source; the VirtualServices can change between
\* two of its requests.
GlooIteration ==
    /\ InLoop("gloo")
    /\ \E later \in Later(cache.virtualServices, VirtualServiceStores) :
       \E k \in 0..ProxyRequests(cache.resources[idx]) :
          /\ later = cache.virtualServices => k = 0
          /\ \E orders \in GlooCallOrders({cache.virtualServices, later}, cache.resources[idx]) :
                Iterate(glooLoopBody(config, cache.services,
                                     Successive(cache.virtualServices, later, k,
                                                ProxyRequests(cache.resources[idx])),
                                     cache.resources[idx], orders))
          /\ cache' = [cache EXCEPT !.virtualServices = later]
          /\ env' = IF later = cache.virtualServices THEN env ELSE Changed
    /\ UNCHANGED <<source, config, other, ctx, arg, out>>

\* A request of the iteration fails; the first, for the service of the
\* proxy, is made in every iteration.
GlooRequestFails == InLoop("gloo") /\ RequestFails

\* The end of Endpoints in the Gloo source: the list is returned as
\* accumulated.
GlooReturn ==
    /\ AfterLoop("gloo")
    /\ Return(endpoints, FALSE)
    /\ UNCHANGED <<source, config, other, cache, ctx, env, idx, endpoints, origins, arg, out>>

\* The caller cancels the context of the running call.  Endpoints of the
\* HTTPProxy and Kong sources never reads its ctx, and that of the
\* IngressRoute source hands it to helpers that read the informer's store
\* without it; the Ambassador and Gloo sources hand it to their requests,
\* which can fail then as they can at any time.
Cancel ==
    /\ pc = "loop"
    /\ ctx = "live"
    /\ env.changes < MaxChanges
    /\ ctx' = "cancelled"
    /\ env' = [env EXCEPT !.changes = @ + 1]
    /\ UNCHANGED <<source, config, other, cache, pc, idx, endpoints, origins, returned, previous,
                   passes, arg, out>>

Next ==
    \/ List
    \/ ListError
    \/ StoreUpdate
    \/ Cancel
    \/ HTTPProxyIteration
    \/ HTTPProxyReturn
    \/ IngressRouteIteration
    \/ IngressRouteReturn
    \/ KongIteration
    \/ KongReturn
    \/ AmbassadorIteration
    \/ AmbassadorReturn
    \/ AmbassadorRequestFails
    \/ GlooIteration
    \/ GlooReturn
    \/ GlooRequestFails

Spec == Init /\ [][Next]_vars

-----------------------------------------------------------------------------
(* Two goroutines calling Endpoints of one source over one snapshot *)

\* The processor passes from the goroutine that runs to the other one,
\* while at least one of them is inside Endpoints.  Each goroutine has its
\* own call: the position in Endpoints, the locals (the slice that the
\* lister returned, the accumulator), the context, the returned value.
\* The objects that the slices point to, the services and the source are
\* shared; a goroutine that has not called yet has no slice, and the
\* objects of the store are then kept in the order in which they were
\* listed last.
Switch ==
    /\ pc = "loop" \/ other.pc = "loop"
    /\ other' = [pc |-> pc, idx |-> idx, endpoints |-> endpoints, origins |-> origins,
                 ctx |-> ctx, returned |-> returned, previous |-> previous,
                 resources |-> cache.resources]
    /\ pc' = other.pc
    /\ idx' = other.idx
    /\ endpoints' = other.endpoints
    /\ origins' = other.origins
    /\ ctx' = other.ctx
    /\ returned' = other.returned
    /\ previous' = other.previous
    /\ cache' = IF other.pc = "idle" THEN cache
                ELSE [cache EXCEPT !.resources = other.resources]
    /\ UNCHANGED <<source, config, env, passes, arg, out>>

\* The snapshot stays as it is while the two goroutines call, and their
\* two calls overlap: the bounds of the model leave room for no event of
\* the environment and for no call after the first of the two has
\* returned.
InitConcurrent == Snapshots /\ IdleAfter([NoEvents EXCEPT !.changes = MaxChanges], MaxPasses - 1)

NextConcurrent ==
    \/ List
    \/ Switch
    \/ HTTPProxyIteration
    \/ HTTPProxyReturn
    \/ IngressRouteIteration
    \/ IngressRouteReturn
    \/ KongIteration
    \/ KongReturn
    \/ AmbassadorIteration
    \/ AmbassadorReturn
    \/ GlooIteration
    \/ GlooReturn

SpecConcurrent == InitConcurrent /\ [][NextConcurrent]_vars

-----------------------------------------------------------------------------
(* parseAmbLoadBalancerService on its own: every reference string over a  *)
(* small alphabet up to MaxRefLen characters, and the documented examples *)

RefAlphabet == {"a", "b", ".", "/"}

RefStrings ==
    StringsUpTo(RefAlphabet, MaxRefLen) \cup {s_ns1_svc1, s_svc1_ns1, s_svc1, s_ref_bad, s_ref_gone}

NoPass ==
    /\ source = "none" /\ config = <<>> /\ cache = <<>> /\ ctx = "live" /\ env = NoEvents
    /\ idx = 0 /\ endpoints = <<>> /\ origins = <<>>
    /\ returned = NoReturn /\ previous = NoReturn /\ passes = 0
    /\ other = NoCall

InitParse ==
    /\ NoPass
    /\ pc = "call"
    /\ arg \in RefStrings
    /\ out = <<>>

ParseService ==
    /\ pc = "call"
    /\ pc' = "return"
    /\ out' = parseAmbLoadBalancerService(arg)
    /\ UNCHANGED <<source, config, other, cache, ctx, env, idx, endpoints, origins, returned, previous, passes, arg>>

NextParse == ParseService

SpecParse == InitParse /\ [][NextParse]_vars

-----------------------------------------------------------------------------
(* The hostnames of a template on their own: templates that render to     *)
(* every string over a small alphabet up to MaxOutLen characters, and the *)
(* documented examples                                                    *)

OutAlphabet == {"a", ".", ",", " "}

TemplateObjects == {[Name |-> s_x, Namespace |-> NamespaceDefault],
                    [Name |-> s_fake1, Namespace |-> NamespaceDefault]}

TwoHostTemplate == <<NameNode, [text |-> s_dot_a_com_comma_space], NameNode, [text |-> s_dot_b_com]>>
ExtDNSTemplate == <<NameNode, [text |-> s_dot_ext_dns_test_com]>>

\* "{{.Name}}.{{.Spec.VirtualHost.Fqdn}}", "{{.Namespace}}.a.com" and
\* "{{.Name.Fqdn}}.a.com"
FieldTemplates ==
    {<<NameNode, [text |-> <<".">>], [field |-> <<s_Spec, s_VirtualHost, s_Fqdn>>]>>,
     <<[field |-> <<s_Namespace>>], [text |-> s_dot_a_com]>>,
     <<[field |-> <<s_Name, s_Fqdn>>], [text |-> s_dot_a_com]>>}

TemplateCalls ==
    {[tmpl |-> t, obj |-> o] : t \in {TwoHostTemplate, ExtDNSTemplate}, o \in TemplateObjects}
    \cup {[tmpl |-> t, obj |-> [Name |-> s_x, Namespace |-> NamespaceDefault, VirtualHost |-> v]] :
            t \in FieldTemplates, v \in {Nil, Fqdn(s_foo_bar)}}
    \cup {[tmpl |-> <<[text |-> t]>>, obj |-> [Name |-> s_x, Namespace |-> NamespaceDefault]] :
            t \in StringsUpTo(OutAlphabet, MaxOutLen)}

InitTemplate ==
    /\ NoPass
    /\ pc = "call"
    /\ arg \in TemplateCalls
    /\ out = <<>>

\* The template is executed on the object and its output is turned into
\* hostnames, as endpointsFromTemplate does.
RenderTemplate ==
    /\ pc = "call"
    /\ pc' = "return"
    /\ out' = LET exec == Execute(arg.tmpl, arg.obj)
              IN  [err |-> exec.err,
                   rendered |-> exec.out,
                   hostnames |-> IF exec.err THEN <<>> ELSE templateHostnames(exec.out)]
    /\ UNCHANGED <<source, config, other, cache, ctx, env, idx, endpoints, origins, returned, previous, passes, arg>>

NextTemplate == RenderTemplate

SpecTemplate == InitTemplate /\ [][NextTemplate]_vars

-----------------------------------------------------------------------------
(* Construction of a source from its configuration, followed by passes *)

s_in == <<"i", "n">>
s_notin == <<"n", "o", "t", "i", "n">>
s_tmplName == <<"{", "{", ".", "N", "a", "m", "e", "}", "}", ".", "a", ".", "c", "o", "m">>
s_tmplTwo == <<"{", "{", " ", ".", "N", "a", "m", "e", " ", "}", "}", ".", "a", ".", "c", "o", "m", ",", " ", "{", "{", ".", "N", "a", "m", "e", "}", "}", ".", "b", ".", "c", "o", "m">>
s_tmplNameFqdn == <<"{", "{", ".", "N", "a", "m", "e", ".", "F", "q", "d", "n", "}", "}", ".", "a", ".", "c", "o", "m">>
s_tmplFqdn == <<"{", "{", ".", "N", "a", "m", "e", "}", "}", ".", "{", "{", ".", "S", "p", "e", "c", ".", "V", "i", "r", "t", "u", "a", "l", "H", "o", "s", "t", ".", "F", "q", "d", "n", "}", "}">>
s_tmplUnclosed == <<"{", "{", ".", "N", "a", "m", "e">>
s_filterEq == s_ingressClassKey \o <<"=", "c", "o", "n", "t", "o", "u", "r">>
s_filterIn == s_ingressClassKey \o <<" ", "i", "n", " ", "(", "n", "g", "i", "n", "x", ",", " ", "c", "o", "n", "t", "o", "u", "r", ")">>
s_filterInAB == s_ingressClassKey \o <<" ", "i", "n", " ", "(", "a", " ", "b", ")">>
s_filterNoKey == <<"=", "c", "o", "n", "t", "o", "u", "r">>

\* The position of the first occurrence of the characters a, b in s, or 0.
IndexPair(s, a, b) ==
    IF \E i \in 1..(Len(s) - 1) : s[i] = a /\ s[i + 1] = b
    THEN CHOOSE i \in 1..(Len(s) - 1) :
            /\ s[i] = a /\ s[i + 1] = b
            /\ \A j \in 1..(i - 1) : ~(s[j] = a /\ s[j + 1] = b)
    ELSE 0

AlphaNumerics ==
    Digits \cup {"A", "B", "C", "D", "E", "F", "G", "H", "I", "J", "K", "L", "M",
                 "N", "O", "P", "Q", "R", "S", "T", "U", "V", "W", "X", "Y", "Z",
                 "a", "b", "c", "d", "e", "f", "g", "h", "i", "j", "k", "l", "m",
                 "n", "o", "p", "q", "r", "s", "t", "u", "v", "w", "x", "y", "z"}


\* An action of the form .Field.Field...: a chain of one or more names.
IsFieldAction(action) ==
    /\ Len(action) >= 2
    /\ action[1] = "."
    /\ \A name \in Range(Split(Tail(action), ".")) :
          name # <<>> /\ \A i \in 1..Len(name) : name[i] \in AlphaNumerics

\* The chain of fields of an action.
fieldsOf(action) ==
    Split(Tail(action), ".")

NoTemplate == [err |-> TRUE, tmpl |-> <<>>]

\* template.Parse for templates made of text and of {{.Field.Field}}
\* actions: an action that is not closed, or that is not a chain of fields,
\* is an error.
RECURSIVE parseNodes(_)
parseNodes(s) ==
    IF s = <<>> THEN [err |-> FALSE, tmpl |-> <<>>]
    ELSE IF IndexPair(s, "{", "{") = 1
    THEN LET close == IndexPair(s, "}", "}")
         IN  IF close = 0 THEN NoTemplate
             ELSE LET action == TrimSpaces(SubSeq(s, 3, close - 1))
                      rest == parseNodes(SubSeq(s, close + 2, Len(s)))
                  IN  IF ~IsFieldAction(action) \/ rest.err THEN NoTemplate
                      ELSE [err |-> FALSE,
                            tmpl |-> <<[field |-> fieldsOf(action)]>> \o rest.tmpl]
    ELSE LET open == IndexPair(s, "{", "{")
             n == IF open = 0 THEN Len(s) ELSE open - 1
             rest == parseNodes(SubSeq(s, n + 1, Len(s)))
         IN  IF rest.err THEN NoTemplate
             ELSE [err |-> FALSE, tmpl |-> <<[text |-> SubSeq(s, 1, n)]>> \o rest.tmpl]

\* parseTemplate: the empty string is no template (nil) and no error.
parseTemplate(fqdnTemplate) ==
    IF fqdnTemplate = <<>> THEN [err |-> FALSE, tmpl |-> Nil]
    ELSE parseNodes(fqdnTemplate)

\* The annotation key that a key of the filter names.
keyOf(chars) ==
    IF \E p \in AnnotationKeys : p[2] = chars
    THEN (CHOOSE p \in AnnotationKeys : p[2] = chars)[1]
    ELSE "other"

\* A key of a requirement: letters, digits, "-", "." and "/", beginning and
\* ending with a letter or a digit.
IsKey(k) ==
    /\ k # <<>>
    /\ \A i \in 1..Len(k) : k[i] \in AlphaNumerics \cup {"-", ".", "/"}
    /\ k[1] \in AlphaNumerics /\ k[Len(k)] \in AlphaNumerics

\* A value of a requirement: empty, or as a key without "/".
IsValue(v) == v = <<>> \/ (IsKey(v) /\ ~Contains(v, "/"))

\* The number of "(" less the number of ")" before position i of s.
Depth(s, i) ==
    Cardinality({j \in 1..(i - 1) : s[j] = "("}) - Cardinality({j \in 1..(i - 1) : s[j] = ")"})

\* The requirements of a filter: its parts between the commas that are not
\* within parentheses.
RECURSIVE splitRequirements(_)
splitRequirements(s) ==
    LET commas == {i \in 1..Len(s) : s[i] = "," /\ Depth(s, i) = 0}
    IN  IF commas = {} THEN <<s>>
        ELSE LET i == CHOOSE c \in commas : \A d \in commas : c <= d
             IN  <<SubSeq(s, 1, i - 1)>> \o splitRequirements(SubSeq(s, i + 1, Len(s)))

NoRequirement == [err |-> TRUE, req |-> <<>>]

Requirement(key, op, values) ==
    IF IsKey(key) /\ \A v \in values : IsValue(v)
    THEN [err |-> FALSE, req |-> [key |-> keyOf(key), op |-> op, values |-> values]]
    ELSE NoRequirement

\* One requirement: key in (v, w), key notin (v, w), key!=v, key=v, key==v,
\* !key or key.
parseRequirement(part) ==
    LET p == TrimSpaces(part)
    IN  IF p = <<>> THEN NoRequirement
        ELSE IF Contains(p, "(") \/ Contains(p, ")")
        THEN IF ~Contains(p, "(") \/ p[Len(p)] # ")" \/ Depth(p, Len(p)) # 1
                  \/ \E i \in 1..Len(p) : Depth(p, i) \notin {0, 1}
             THEN NoRequirement
             ELSE LET open == Index(p, "(")
                      words == SelectSeq(Split(SubSeq(p, 1, open - 1), " "), LAMBDA w : w # <<>>)
                      items == Split(SubSeq(p, open + 1, Len(p) - 1), ",")
                      values == {TrimSpaces(items[i]) : i \in 1..Len(items)}
                  IN  IF Len(words) # 2 \/ words[2] \notin {s_in, s_notin} THEN NoRequirement
                      ELSE Requirement(words[1], IF words[2] = s_in THEN "in" ELSE "notin", values)
        ELSE IF IndexPair(p, "!", "=") # 0
        THEN LET i == IndexPair(p, "!", "=")
             IN  Requirement(TrimSpaces(SubSeq(p, 1, i - 1)), "notin",
                             {TrimSpaces(SubSeq(p, i + 2, Len(p)))})
        ELSE IF Contains(p, "=")
        THEN LET i == Index(p, "=")
                 j == IF i < Len(p) /\ p[i + 1] = "=" THEN i + 2 ELSE i + 1
             IN  Requirement(TrimSpaces(SubSeq(p, 1, i - 1)), "in",
                             {TrimSpaces(SubSeq(p, j, Len(p)))})
        ELSE IF p[1] = "!" THEN Requirement(TrimSpaces(Tail(p)), "!", {})
        ELSE Requirement(p, "exists", {})

\* labels.Parse: the empty filter selects everything; otherwise every
\* requirement of the filter has to parse.
labelsParse(filter) ==
    IF TrimSpaces(filter) = <<>> THEN [err |-> FALSE, selector |-> Everything]
    ELSE LET parts == splitRequirements(filter)
             reqs == [i \in 1..Len(parts) |-> parseRequirement(parts[i])]
         IN  IF \E i \in 1..Len(parts) : reqs[i].err
             THEN [err |-> TRUE, selector |-> Everything]
             ELSE [err |-> FALSE, selector |-> {reqs[i].req : i \in 1..Len(parts)}]

NoSource == [err |-> TRUE, sc |-> Nil]

Constructed(sc) == [err |-> FALSE, sc |-> sc]

\* A variant that goes on without a template when the template does not
\* parse.
NewContourHTTPProxySource_NoTemplateCheck(clients, cfg) ==
    LET tmpl == parseTemplate(cfg.FQDNTemplate)
        annotationSelector == labelsParse(cfg.AnnotationFilter)
    IN  IF annotationSelector.err THEN NoSource
        ELSE IF ~clients THEN NoSource
        ELSE Constructed([fqdnTemplate |-> tmpl.tmpl,
                          annotationSelector |-> annotationSelector.selector,
                          combineFQDNAnnotation |-> cfg.CombineFQDNAndAnnotation,
                          ignoreHostnameAnnotation |-> cfg.IgnoreHostnameAnnotation,
                          lbService |-> ContourLBService, namespace |-> <<>>])

\* NewContourHTTPProxySource: the template, then the filter, then the
\* client; the struct holds no load-balancer service, the field is there for
\* the two Contour sources to have one shape.  The struct literal does not
\* set namespace, which keeps its zero value whatever config.Namespace is.
NewContourHTTPProxySource(clients, cfg) ==
    LET tmpl == parseTemplate(cfg.FQDNTemplate)
        annotationSelector == labelsParse(cfg.AnnotationFilter)
    IN  IF tmpl.err THEN NoSource
        ELSE IF annotationSelector.err THEN NoSource
        ELSE IF ~clients THEN NoSource
        ELSE Constructed([fqdnTemplate |-> tmpl.tmpl,
                          annotationSelector |-> annotationSelector.selector,
                          combineFQDNAnnotation |-> cfg.CombineFQDNAndAnnotation,
                          ignoreHostnameAnnotation |-> cfg.IgnoreHostnameAnnotation,
                          lbService |-> ContourLBService, namespace |-> <<>>])

\* NewContourIngressRouteSource: the template, the load-balancer service,
\* the filter, then the clients; namespace is not set, as above.
NewContourIngressRouteSource(clients, cfg) ==
    LET tmpl == parseTemplate(cfg.FQDNTemplate)
        lb == parseContourLoadBalancerService(cfg.ContourLoadBalancerService)
        annotationSelector == labelsParse(cfg.AnnotationFilter)
    IN  IF tmpl.err THEN NoSource
        ELSE IF lb.err THEN NoSource
        ELSE IF annotationSelector.err THEN NoSource
        ELSE IF ~clients THEN NoSource
        ELSE Constructed([fqdnTemplate |-> tmpl.tmpl,
                          annotationSelector |-> annotationSelector.selector,
                          combineFQDNAnnotation |-> cfg.CombineFQDNAndAnnotation,
                          ignoreHostnameAnnotation |-> cfg.IgnoreHostnameAnnotation,
                          lbService |-> [Namespace |-> lb.namespace, Name |-> lb.name],
                          namespace |-> <<>>])

\* NewKongTCPIngressSource: the filter, then the clients.
NewKongTCPIngressSource(clients, cfg) ==
    LET annotationSelector == labelsParse(cfg.AnnotationFilter)
    IN  IF annotationSelector.err THEN NoSource
        ELSE IF ~clients THEN NoSource
        ELSE Constructed([annotationSelector |-> annotationSelector.selector,
                          namespace |-> cfg.Namespace])

\* NewAmbassadorHostSource: the clients only.
NewAmbassadorHostSource(clients, cfg) ==
    IF ~clients THEN NoSource ELSE Constructed([namespace |-> cfg.Namespace])

\* NewGlooSource: the clients only.
NewGlooSource(clients, cfg) ==
    IF ~clients THEN NoSource ELSE Constructed([namespace |-> cfg.GlooNamespace])

\* The Config of a call: the fields the constructors read.
Config(template, filter, combine, lbService, glooNamespace) ==
    [FQDNTemplate |-> template, AnnotationFilter |-> filter,
     CombineFQDNAndAnnotation |-> combine, IgnoreHostnameAnnotation |-> FALSE,
     ContourLoadBalancerService |-> lbService, Namespace |-> NamespaceDefault,
     GlooNamespace |-> glooNamespace]

FQDNTemplates == {<<>>, s_tmplName, s_tmplTwo, s_tmplNameFqdn, s_tmplFqdn, s_tmplUnclosed}

AnnotationFilters == {<<>>, s_filterEq, s_filterIn, s_filterInAB, s_filterNoKey}

ContourCalls(kind, lbServices) ==
    {[new |-> kind, clients |-> c, config |-> Config(t, f, b, lb, <<>>)] :
        c \in BOOLEAN, t \in FQDNTemplates, f \in AnnotationFilters, b \in BOOLEAN,
        lb \in lbServices}

\* The calls of the constructors that read no template: with a template
\* that does not parse, and without one.
OtherCalls(kind, filters, glooNamespace) ==
    {[new |-> kind, clients |-> c, config |-> Config(t, f, FALSE, <<>>, glooNamespace)] :
        c \in BOOLEAN, t \in {<<>>, s_tmplUnclosed}, f \in filters}

\* The objects of the cache: none, or one of the shapes.
OneOf(shapes) == {<<>>} \cup {<<Named(r, 1)>> : r \in shapes}

\* Before the constructor is called: no source, and the objects that the
\* informers of the source would list.
InitNew ==
    /\ source = "none" /\ config = <<>> /\ ctx = "live" /\ env = NoEvents
    /\ idx = 0 /\ endpoints = <<>> /\ origins = <<>>
    /\ returned = NoReturn /\ previous = NoReturn /\ passes = 0
    /\ pc = "new"
    /\ out = <<>>
    /\ other = NoCall
    /\ \/ /\ arg \in ContourCalls("httpproxy", {s_ref_slash})
          /\ cache \in {Snapshot(l, NoServices, NoServices) : l \in OneOf(HTTPProxyShapes)}
       \/ /\ arg \in ContourCalls("ingressroute", {s_ref_slash, s_ref_bare})
          /\ cache \in {Snapshot(l, svcs, NoServices) :
                          l \in OneOf(IngressRouteShapes), svcs \in ContourServices}
       \/ /\ arg \in OtherCalls("kong", AnnotationFilters, <<>>)
          /\ cache \in {Snapshot(l, NoServices, NoServices) : l \in OneOf(TCPIngressShapes)}
       \/ /\ arg \in OtherCalls("ambassador", {<<>>, s_filterInAB}, <<>>)
          /\ cache \in {Snapshot(l, svcs, NoServices) :
                          l \in OneOf(HostShapes), svcs \in AmbassadorServices}
       \/ /\ arg \in OtherCalls("gloo", {<<>>, s_filterInAB}, s_ns)
          /\ cache \in {Snapshot(l, svcs, vss) :
                          l \in OneOf(ProxyShapes),
                          svcs \in GlooServices, vss \in GlooVirtualServices}

Calling(kind) == pc = "new" /\ arg.new = kind

\* return nil, err or return &source{...}, nil
New(kind, result) ==
    /\ out' = [err |-> result.err, source |-> IF result.err THEN Nil ELSE <<kind>>]
    /\ IF result.err
       THEN pc' = "failed" /\ UNCHANGED <<source, config>>
       ELSE pc' = "idle" /\ source' = kind /\ config' = result.sc
    /\ UNCHANGED <<other, cache, ctx, env, idx, endpoints, origins, returned, previous, passes, arg>>

NewHTTPProxy == Calling("httpproxy") /\ New("httpproxy", NewContourHTTPProxySource(arg.clients, arg.config))

NewIngressRoute == Calling("ingressroute") /\ New("ingressroute", NewContourIngressRouteSource(arg.clients, arg.config))

NewKong == Calling("kong") /\ New("kong", NewKongTCPIngressSource(arg.clients, arg.config))

NewAmbassador == Calling("ambassador") /\ New("ambassador", NewAmbassadorHostSource(arg.clients, arg.config))

NewGloo == Calling("gloo") /\ New("gloo", NewGlooSource(arg.clients, arg.config))

NextNew ==
    \/ NewHTTPProxy
    \/ NewIngressRoute
    \/ NewKong
    \/ NewAmbassador
    \/ NewGloo
    \/ List
    \/ ListError
    \/ StoreUpdate
    \/ Cancel
    \/ HTTPProxyIteration
    \/ HTTPProxyReturn
    \/ IngressRouteIteration
    \/ IngressRouteReturn
    \/ KongIteration
    \/ KongReturn
    \/ AmbassadorIteration
    \/ AmbassadorReturn
    \/ AmbassadorRequestFails
    \/ GlooIteration
    \/ GlooReturn
    \/ GlooRequestFails

SpecNew == InitNew /\ [][NextNew]_vars

-----------------------------------------------------------------------------
(* Properties *)

Occurrences(s, c) == Cardinality({i \in 1..Len(s) : s[i] = c})

\* C10: parseAmbLoadBalancerService maps every reference string as
\* documented: with exactly one '/', the namespace is the part before it
\* and the name the part after it; with no '/' and at least one '.', the
\* name is the part before the first '.' and the namespace all that follows
\* it; with neither, the name is the whole string, in the default
\* namespace; with two or more '/', an error and empty namespace and name.
C10_ParseAmbReference ==
    pc = "return" =>
        LET slashes == Occurrences(arg, "/")
            dots == Occurrences(arg, ".")
        IN  /\ slashes = 1 =>
                /\ ~out.err
                /\ \E i \in 1..Len(arg) :
                      /\ arg[i] = "/"
                      /\ out.namespace = SubSeq(arg, 1, i - 1)
                      /\ out.name = SubSeq(arg, i + 1, Len(arg))
            /\ (slashes = 0 /\ dots >= 1) =>
                /\ ~out.err
                /\ \E i \in 1..Len(arg) :
                      /\ arg[i] = "."
                      /\ \A j \in 1..(i - 1) : arg[j] # "."
                      /\ out.name = SubSeq(arg, 1, i - 1)
                      /\ out.namespace = SubSeq(arg, i + 1, Len(arg))
            /\ (slashes = 0 /\ dots = 0) =>
                ~out.err /\ out.name = arg /\ out.namespace = NamespaceDefault
            /\ slashes >= 2 =>
                out.err /\ out.namespace = <<>> /\ out.name = <<>>
            /\ arg = s_ns1_svc1 => out = [namespace |-> s_ns1, name |-> s_svc1, err |-> FALSE]
            /\ arg = s_svc1_ns1 => out = [namespace |-> s_ns1, name |-> s_svc1, err |-> FALSE]
            /\ arg = s_svc1 => out = [namespace |-> NamespaceDefault, name |-> s_svc1, err |-> FALSE]
            /\ arg = s_ref_bad => out.err

\* A dotted reference with more than one period has been parsed.
C10_Witness ==
    /\ pc = "return"
    /\ arg = <<"a", ".", "b", ".", "a">>
    /\ out = [namespace |-> <<"b", ".", "a">>, name |-> <<"a">>, err |-> FALSE]

\* The item of s between its (k-1)-th and its k-th comma.
CommaPositions(s) == {i \in 1..Len(s) : s[i] = ","}

ItemStart(s, k) ==
    IF k = 1 THEN 1
    ELSE 1 + CHOOSE i \in CommaPositions(s) :
                 Cardinality({j \in CommaPositions(s) : j <= i}) = k - 1

ItemEnd(s, k) ==
    IF k = Cardinality(CommaPositions(s)) + 1 THEN Len(s)
    ELSE (CHOOSE i \in CommaPositions(s) :
              Cardinality({j \in CommaPositions(s) : j <= i}) = k) - 1

Item(s, k) == SubSeq(s, ItemStart(s, k), ItemEnd(s, k))

WithoutEndSpaces(s) ==
    IF \A i \in 1..Len(s) : s[i] = " " THEN <<>>
    ELSE LET first == CHOOSE i \in 1..Len(s) : s[i] # " " /\ \A j \in 1..(i - 1) : s[j] = " "
             last == CHOOSE i \in 1..Len(s) : s[i] # " " /\ \A j \in (i + 1)..Len(s) : s[j] = " "
         IN  SubSeq(s, first, last)

WithoutAnySpace(s) == SelectSeq(s, LAMBDA c : c # " ")

WithoutLastPeriod(s) ==
    IF s # <<>> /\ s[Len(s)] = "." THEN SubSeq(s, 1, Len(s) - 1) ELSE s

TemplateExamples ==
    /\ (arg.tmpl = TwoHostTemplate /\ arg.obj.Name = s_x) => out.hostnames = <<s_x_a_com, s_x_b_com>>
    /\ (arg.tmpl = ExtDNSTemplate /\ arg.obj.Name = s_fake1) => out.hostnames = <<s_fake1_ext_dns_test_com>>

\* C6, as stated: the rendered output is split at commas, in order, the
\* whitespace around each item is removed and a trailing '.' is stripped
\* from each item; the two documented examples.
C6_TrimmedItems ==
    (pc = "return" /\ ~out.err) =>
        /\ Len(out.hostnames) = Cardinality(CommaPositions(out.rendered)) + 1
        /\ \A k \in 1..Len(out.hostnames) :
              out.hostnames[k] = WithoutLastPeriod(WithoutEndSpaces(Item(out.rendered, k)))
        /\ TemplateExamples

\* C6, amended: the rendered output is split at commas, in order, every
\* space of an item is removed, those inside it too, and then one trailing
\* '.' is stripped; the two documented examples.
C6_SpaceFreeItems ==
    (pc = "return" /\ ~out.err) =>
        /\ Len(out.hostnames) = Cardinality(CommaPositions(out.rendered)) + 1
        /\ \A k \in 1..Len(out.hostnames) :
              out.hostnames[k] = WithoutLastPeriod(WithoutAnySpace(Item(out.rendered, k)))
        /\ TemplateExamples

\* The two-hostname template has been rendered for the object named "x".
C6_Witness ==
    /\ pc = "return"
    /\ arg.tmpl = TwoHostTemplate
    /\ arg.obj.Name = s_x
    /\ out.hostnames = <<s_x_a_com, s_x_b_com>>

ContourSources == {"httpproxy", "ingressroute"}
SortingSources == {"httpproxy", "ingressroute", "kong", "ambassador"}

\* Nothing has disturbed the running (or last) call: the services and
\* VirtualServices are those its lookups found, its lister and all its
\* requests have succeeded.
Undisturbed == ~env.changed /\ env.fault = "none"

\* The pass has returned a list and no error, and the snapshot is the one it
\* has read; origins then names, position by position, the listed resource
\* each returned endpoint was made from.
Succeeded == pc = "done" /\ returned.called /\ ~returned.err /\ Undisturbed

Listed == 1..Len(cache.resources)

\* What the requests for the VirtualServices of the sources are answered
\* when no VirtualService changes between them.
Steady(virtualServices, sources) == [i \in 1..Requests(sources) |-> virtualServices]
EndpointsOf(i) == {k \in 1..Len(origins) : origins[k] = i}

FailsSelector(r) == ~SelectorMatches(config.annotationSelector, r.Annotations)

ForeignController(r) ==
    /\ controllerAnnotationKey \in DOMAIN r.Annotations
    /\ r.Annotations[controllerAnnotationKey] # controllerAnnotationValue

LabelOf(r) ==
    resourceLabel(IF source = "httpproxy" THEN httpProxyKind ELSE ingressRouteKind, r)

\* No accumulated endpoint was made from the i-th resource, and no returned
\* endpoint carries its resource label.
ContributesNothing(i) ==
    /\ EndpointsOf(i) = {}
    /\ pc = "done" =>
          \A k \in 1..Len(returned.endpoints) :
              returned.endpoints[k].Labels[ResourceLabelKey] # LabelOf(cache.resources[i])

HasNativeHostname(r) == r.VirtualHost # Nil /\ r.VirtualHost[1].Fqdn # <<>>

\* C1: in the HTTPProxy and IngressRoute sources, a resource whose
\* annotations do not match the annotation selector, or whose controller
\* annotation names another controller, contributes no endpoint, whatever
\* its hostnames, targets, the template and the combine flag.
C1_FilteredContributeNothing ==
    source \in ContourSources =>
        \A i \in Listed :
            (FailsSelector(cache.resources[i]) \/ ForeignController(cache.resources[i]))
                => ContributesNothing(i)

\* A pass over two resources has returned the endpoints of one of them, the
\* other naming another controller while carrying a native hostname, a
\* hostname annotation and a target annotation, with a template configured
\* and the combine flag set.
C1_Witness ==
    /\ source = "httpproxy"
    /\ Succeeded
    /\ config.fqdnTemplate # Nil
    /\ config.combineFQDNAnnotation
    /\ returned.endpoints # <<>>
    /\ \E i \in Listed :
          /\ ForeignController(cache.resources[i])
          /\ HasNativeHostname(cache.resources[i])
          /\ hostnameAnnotationKey \in DOMAIN cache.resources[i].Annotations
          /\ targetAnnotationKey \in DOMAIN cache.resources[i].Annotations

\* C2: in the HTTPProxy and IngressRoute sources, a resource whose status
\* is not exactly "valid" contributes no endpoint, also when a template is
\* configured and when the combine flag is set.
C2_InvalidContributeNothing ==
    source \in ContourSources =>
        \A i \in Listed :
            cache.resources[i].CurrentStatus # "valid" => ContributesNothing(i)

\* A pass with a template and the combine flag has returned endpoints, one
\* of its resources passing the selector and the controller check with a
\* status other than "valid".
C2_Witness ==
    /\ source = "ingressroute"
    /\ Succeeded
    /\ config.fqdnTemplate # Nil
    /\ config.combineFQDNAnnotation
    /\ returned.endpoints # <<>>
    /\ \E i \in Listed :
          /\ cache.resources[i].CurrentStatus # "valid"
          /\ ~FailsSelector(cache.resources[i])
          /\ ~ForeignController(cache.resources[i])
          /\ HasNativeHostname(cache.resources[i])

\* The targets an HTTPProxy's status or the IngressRoute source's
\* load-balancer service would give.
LoadBalancerTargets(r) ==
    IF source = "httpproxy" THEN lbTargets(r.LoadBalancer)
    ELSE targetsFromContourLoadBalancer(config, cache.services).targets

\* C3, as stated: in the HTTPProxy and IngressRoute sources, when the
\* target annotation of a resource yields targets, every endpoint of the
\* resource carries exactly the targets of the annotation.  An annotation
\* with an address and a name gives two endpoints for each hostname, one
\* with the address and one with the name.
C3_ExactlyAnnotationTargets ==
    (source \in ContourSources /\ Succeeded) =>
        \A i \in Listed :
            LET want == getTargetsFromTargetAnnotation(cache.resources[i].Annotations)
            IN  want # <<>> =>
                    \A k \in EndpointsOf(i) :
                        Range(returned.endpoints[k].Targets) = Range(want)

\* C3, amended: in the HTTPProxy and IngressRoute sources, when the target
\* annotation of a resource yields targets, every endpoint of the resource
\* has targets of the annotation only, the endpoints of one DNS name have
\* all of them between them, and the load balancer gives none.
C3_AnnotationTargetsOnly ==
    (source \in ContourSources /\ Succeeded) =>
        \A i \in Listed :
            LET want == getTargetsFromTargetAnnotation(cache.resources[i].Annotations)
            IN  want # <<>> =>
                    \A k \in EndpointsOf(i) :
                        /\ Range(returned.endpoints[k].Targets) \subseteq Range(want)
                        /\ UNION {Range(returned.endpoints[m].Targets) :
                                    m \in {n \in EndpointsOf(i) :
                                             returned.endpoints[n].DNSName = returned.endpoints[k].DNSName}}
                             = Range(want)

\* A resource with a target annotation and a load balancer that has other
\* targets has given endpoints for its native hostname, an annotation
\* hostname and a template hostname; another has given endpoints that
\* share the targets of its annotation, an address and a name, between
\* them.
C3_Witness ==
    /\ source \in ContourSources
    /\ Succeeded
    /\ config.fqdnTemplate # Nil
    /\ config.combineFQDNAnnotation
    /\ ~config.ignoreHostnameAnnotation
    /\ \E i \in Listed :
          /\ getTargetsFromTargetAnnotation(cache.resources[i].Annotations) # <<>>
          /\ Range(LoadBalancerTargets(cache.resources[i]))
                 \ Range(getTargetsFromTargetAnnotation(cache.resources[i].Annotations)) # {}
          /\ HasNativeHostname(cache.resources[i])
          /\ hostnameAnnotationKey \in DOMAIN cache.resources[i].Annotations
          /\ Cardinality({returned.endpoints[k].DNSName : k \in EndpointsOf(i)}) >= 3
    /\ \E i \in Listed :
          /\ EndpointsOf(i) # {}
          /\ \A k \in EndpointsOf(i) :
                /\ returned.endpoints[k].Targets # <<>>
                /\ Range(returned.endpoints[k].Targets)
                       # Range(getTargetsFromTargetAnnotation(cache.resources[i].Annotations))
                /\ Range(returned.endpoints[k].Targets)
                       \subseteq Range(getTargetsFromTargetAnnotation(cache.resources[i].Annotations))

\* The resource passes the filter at the head of the loop.
Passes(r) == ~FailsSelector(r) /\ ~ForeignController(r) /\ r.CurrentStatus = "valid"

ResourceTargets(r) ==
    IF source = "httpproxy" THEN httpProxyTargets(r)
    ELSE ingressRouteTargets(config, cache.services, r).targets

\* The native hostname, then the hostnames of the hostname annotation unless
\* the source ignores it.
OwnHostnames(r) ==
    (IF HasNativeHostname(r) THEN <<r.VirtualHost[1].Fqdn>> ELSE <<>>)
    \o (IF config.ignoreHostnameAnnotation THEN <<>>
        ELSE getHostnamesFromAnnotations(r.Annotations))

TemplateHostnames(r) == templateHostnames(Execute(config.fqdnTemplate, r).out)

DNSNames(hostnames) == [j \in 1..Len(hostnames) |-> TrimSuffixDot(hostnames[j])]

NamesIn(eps) == [k \in 1..Len(eps) |-> eps[k].DNSName]

NamesOf(i) == {returned.endpoints[k].DNSName : k \in EndpointsOf(i)}

\* C4: for a resource of the HTTPProxy or IngressRoute source that passes
\* the filter and has targets: with a template, the combine flag unset and
\* a native or annotation hostname (the annotation counting when the source
\* does not ignore it), the DNS names of its endpoints are those hostnames
\* and no other; with a template and neither hostname, they are the
\* template's; with a template and the combine flag, they are both; with no
\* template, they are the native and annotation hostnames.
C4_CombinationPolicy ==
    (source \in ContourSources /\ Succeeded) =>
        \A i \in Listed :
            LET r == cache.resources[i]
                own == Range(DNSNames(OwnHostnames(r)))
                tmpl == Range(DNSNames(TemplateHostnames(r)))
            IN  (Passes(r) /\ ResourceTargets(r) # <<>>) =>
                    /\ (config.fqdnTemplate # Nil /\ ~config.combineFQDNAnnotation /\ own # {})
                           => NamesOf(i) = own /\ NamesOf(i) \cap (tmpl \ own) = {}
                    /\ (config.fqdnTemplate # Nil /\ own = {}) => NamesOf(i) = tmpl
                    /\ (config.fqdnTemplate # Nil /\ config.combineFQDNAnnotation)
                           => NamesOf(i) = own \cup tmpl
                    /\ config.fqdnTemplate = Nil => NamesOf(i) = own

\* With a template and the combine flag unset, one pass has returned the
\* endpoints of a resource with a native hostname, under that hostname, and
\* those of a resource with neither hostname, under the template's.
C4_Witness ==
    /\ source = "httpproxy"
    /\ Succeeded
    /\ config.fqdnTemplate # Nil
    /\ ~config.combineFQDNAnnotation
    /\ \E i, j \in Listed :
          /\ OwnHostnames(cache.resources[i]) # <<>>
          /\ NamesOf(i) = Range(DNSNames(OwnHostnames(cache.resources[i])))
          /\ OwnHostnames(cache.resources[j]) = <<>>
          /\ NamesOf(j) # {}
          /\ NamesOf(j) = Range(DNSNames(TemplateHostnames(cache.resources[j])))

\* The hostnames used for a resource, in the order of the contract.
UsedHostnames(r) ==
    IF config.fqdnTemplate = Nil THEN OwnHostnames(r)
    ELSE IF config.combineFQDNAnnotation THEN OwnHostnames(r) \o TemplateHostnames(r)
    ELSE IF OwnHostnames(r) # <<>> /\ ResourceTargets(r) # <<>> THEN OwnHostnames(r)
    ELSE TemplateHostnames(r)

\* A hostname gives one endpoint for its address targets and one for its
\* other targets.
KindCount(targets) ==
    (IF \E j \in 1..Len(targets) : IsIP(targets[j]) THEN 1 ELSE 0)
    + (IF \E j \in 1..Len(targets) : ~IsIP(targets[j]) THEN 1 ELSE 0)

RepeatEach(names, n) == [j \in 1..(Len(names) * n) |-> names[((j - 1) \div n) + 1]]

ExpectedNames(r) ==
    IF Passes(r) THEN RepeatEach(DNSNames(UsedHostnames(r)), KindCount(ResourceTargets(r)))
    ELSE <<>>

RECURSIVE ExpectedUpTo(_)
ExpectedUpTo(n) ==
    IF n = 0 THEN <<>> ELSE ExpectedUpTo(n - 1) \o ExpectedNames(cache.resources[n])

\* C5: in the HTTPProxy and IngressRoute sources, the DNS names of the
\* accumulated endpoints are, at every step of the pass, those of the
\* resources visited so far, resource after resource in listing order, and
\* for each resource the native hostname, then the annotation hostnames in
\* annotation order, then the template hostnames; the returned list has
\* them in the same order, the sort having moved no endpoint.
C5_OutputOrder ==
    source \in ContourSources =>
        /\ (pc \in {"loop", "done"} /\ Undisturbed) => NamesIn(endpoints) = ExpectedUpTo(idx - 1)
        /\ \A k \in 1..(Len(origins) - 1) : origins[k] <= origins[k + 1]
        /\ Succeeded => NamesIn(returned.endpoints) = ExpectedUpTo(Len(cache.resources))

\* A pass has returned the endpoints of two resources, the second of them
\* with a native hostname, two annotation hostnames and a template hostname.
C5_Witness ==
    /\ source = "httpproxy"
    /\ Succeeded
    /\ config.fqdnTemplate # Nil
    /\ config.combineFQDNAnnotation
    /\ ~config.ignoreHostnameAnnotation
    /\ EndpointsOf(1) # {}
    /\ Len(cache.resources) = 2
    /\ HasNativeHostname(cache.resources[2])
    /\ Len(getHostnamesFromAnnotations(cache.resources[2].Annotations)) = 2
    /\ Cardinality(NamesOf(2)) >= 4

\* a <= b in the byte-wise lexicographic order of strings
LexLeq(a, b) ==
    \/ Len(a) <= Len(b) /\ SubSeq(b, 1, Len(a)) = a
    \/ \E n \in 1..Len(a) :
          /\ n <= Len(b)
          /\ SubSeq(a, 1, n - 1) = SubSeq(b, 1, n - 1)
          /\ Byte(a[n]) < Byte(b[n])

NonDecreasing(targets) == \A j \in 1..(Len(targets) - 1) : LexLeq(targets[j], targets[j + 1])

\* C7: the targets of every endpoint returned by a pass of the HTTPProxy,
\* IngressRoute, Kong TCPIngress or Ambassador Host source that succeeded
\* are in non-decreasing lexicographic order.
C7_TargetsSorted ==
    (source \in SortingSources /\ returned.called /\ ~returned.err) =>
        \A k \in 1..Len(returned.endpoints) : NonDecreasing(returned.endpoints[k].Targets)

\* A pass has returned an endpoint with several targets for a resource
\* whose target annotation lists them in decreasing order.
C7_Witness ==
    /\ source = "httpproxy"
    /\ Succeeded
    /\ \E i \in Listed :
          /\ ~NonDecreasing(getTargetsFromTargetAnnotation(cache.resources[i].Annotations))
          /\ \E k \in EndpointsOf(i) : Len(returned.endpoints[k].Targets) >= 2

\* C8: the targets of every endpoint returned by a pass of the Gloo Proxy
\* source that succeeded are in non-decreasing lexicographic order.
C8_GlooTargetsSorted ==
    (source = "gloo" /\ returned.called /\ ~returned.err) =>
        \A k \in 1..Len(returned.endpoints) : NonDecreasing(returned.endpoints[k].Targets)

\* The same pairs, each as often, in whatever order.
SamePairs(p, q) ==
    /\ Len(p) = Len(q)
    /\ \A x \in Range(p) \cup Range(q) :
          Cardinality({i \in 1..Len(p) : p[i] = x}) = Cardinality({i \in 1..Len(q) : q[i] = x})

\* Two returns of Endpoints that differ at most in the order of the
\* provider-specific pairs of their endpoints.
SameButForPairOrder(a, b) ==
    /\ a.called = b.called
    /\ a.err = b.err
    /\ Len(a.endpoints) = Len(b.endpoints)
    /\ \A k \in 1..Len(a.endpoints) :
          /\ [a.endpoints[k] EXCEPT !.ProviderSpecific = <<>>]
                = [b.endpoints[k] EXCEPT !.ProviderSpecific = <<>>]
          /\ SamePairs(a.endpoints[k].ProviderSpecific, b.endpoints[k].ProviderSpecific)

\* The second of two passes over an unchanged snapshot has returned.
SecondPass == pc = "done" /\ passes >= 2 /\ env.again /\ Undisturbed

\* C9: a second pass of a source over an unchanged snapshot (its lister
\* finds the same resources in the same order, the services and
\* VirtualServices have not changed since the first pass listed, no lister
\* and no request has failed) and the same configuration returns what the
\* first returned: the same endpoints in the same order, field by field,
\* with the same provider-specific pairs in the same order, or an error as
\* the first did.
C9_Idempotent == SecondPass => returned = previous

\* What does hold of the two passes: the second returns what the first
\* returned but for the order of the provider-specific pairs.
IdempotentButForPairOrder == SecondPass => SameButForPairOrder(returned, previous)

\* The Host carries the service annotation.
HasReference(h) == ambHostAnnotation \in DOMAIN h.Annotations

\* The reference of the Host has more than one '/'.
MalformedReference(h) ==
    HasReference(h) /\ Occurrences(h.Annotations[ambHostAnnotation], "/") >= 2

\* C11: a pass of the Ambassador Host source over a list in which a Host
\* with the service annotation has a reference with more than one '/'
\* returns an error and no endpoint, whatever the other Hosts are.
C11_MalformedReferenceFatal ==
    (source = "ambassador" /\ pc = "done"
        /\ \E i \in Listed : MalformedReference(cache.resources[i]))
    => returned.err /\ returned.endpoints = Nil

\* A pass has failed on the malformed reference of its second Host after
\* it had accumulated the endpoints of the first.
C11_Witness ==
    /\ source = "ambassador"
    /\ pc = "done"
    /\ returned.err
    /\ Len(cache.resources) = 2
    /\ ~MalformedReference(cache.resources[1])
    /\ EndpointsOf(1) # {}
    /\ MalformedReference(cache.resources[2])


\* The load-balancer service of the configuration is not in the cache.
LBServiceMissing ==
    <<config.lbService.Namespace, config.lbService.Name>> \notin DOMAIN cache.services

\* C12: when the load-balancer service of an IngressRoute source is not
\* found by any lookup of a pass, the lookup makes no pass fail (a pass that returns an error has
\* failed to render the template for the resource it stopped at); no
\* resource without targets in its target annotation has an endpoint, and in
\* a pass that succeeds every resource that passes the filter with targets
\* in its target annotation and a hostname has its endpoints.
C12_MissingLBServiceSoft ==
    (source = "ingressroute" /\ pc = "done" /\ Undisturbed /\ LBServiceMissing) =>
        /\ returned.err => Execute(config.fqdnTemplate, cache.resources[idx]).err
        /\ \A i \in Listed :
              LET r == cache.resources[i]
                  want == getTargetsFromTargetAnnotation(r.Annotations)
              IN  /\ want = <<>> => EndpointsOf(i) = {}
                  /\ (~returned.err /\ Passes(r) /\ want # <<>> /\ UsedHostnames(r) # <<>>)
                        => /\ EndpointsOf(i) # {}
                           /\ \A k \in EndpointsOf(i) :
                                 Range(returned.endpoints[k].Targets) \subseteq Range(want)

\* Without the load-balancer service, a pass has returned the endpoints of
\* a resource with a target annotation and none for a valid resource with
\* a hostname and no target annotation.
C12_Witness ==
    /\ source = "ingressroute"
    /\ Succeeded
    /\ LBServiceMissing
    /\ \E i, j \in Listed :
          /\ Passes(cache.resources[i])
          /\ HasNativeHostname(cache.resources[i])
          /\ targetAnnotationKey \notin DOMAIN cache.resources[i].Annotations
          /\ EndpointsOf(i) = {}
          /\ Passes(cache.resources[j])
          /\ getTargetsFromTargetAnnotation(cache.resources[j].Annotations) # <<>>
          /\ EndpointsOf(j) # {}


\* The annotations parse to a TTL.
TTLParses(annotations) == ~getTTLFromAnnotations(annotations).err

\* Nothing but a lookup can go wrong in the pass: every reference of an
\* Ambassador Host is well formed and every TTL annotation parses.
OnlyLookupsCanFail ==
    IF source = "ambassador"
    THEN \A i \in Listed :
            /\ ~MalformedReference(cache.resources[i])
            /\ TTLParses(cache.resources[i].Annotations)
    ELSE \A key \in DOMAIN cache.virtualServices : TTLParses(cache.virtualServices[key])

\* C13: a pass of the Ambassador Host source or of the Gloo Proxy source
\* in which a service or a VirtualService is not found, and nothing else is
\* wrong (the lister and every request have answered, nothing has changed
\* during the pass), returns no error.
C13_LookupFailureSoft ==
    (source \in {"ambassador", "gloo"} /\ pc = "done" /\ Undisturbed /\ OnlyLookupsCanFail)
        => ~returned.err


Adapters == {"httpproxy", "ingressroute", "kong", "ambassador", "gloo"}

\* Nothing but a TTL annotation can make the pass fail: every template
\* renders, every reference resolves, every service and VirtualService is
\* found.
OnlyTTLCanFail ==
    CASE source \in ContourSources ->
            \A i \in Listed : ~Execute(config.fqdnTemplate, cache.resources[i]).err
      [] source = "kong" -> TRUE
      [] source = "ambassador" ->
            \A i \in Listed :
                HasReference(cache.resources[i]) =>
                    ~targetsFromAmbassadorLoadBalancer(
                         cache.services, cache.resources[i].Annotations[ambHostAnnotation]).err
      [] source = "gloo" ->
            \A i \in Listed :
                /\ ~proxyTargets(config, cache.services, cache.resources[i].Name).err
                /\ LET vhosts == proxyVirtualHosts(cache.resources[i].Listeners)
                   IN  \A j \in 1..Len(vhosts) :
                           ~annotationsFromVirtualHost(
                                Steady(cache.virtualServices, vhosts[j].Source), vhosts[j]).err

\* The resource has no TTL annotation, or one that does not parse.
NoUsableTTL(r) ==
    ttlAnnotationKey \notin DOMAIN r.Annotations \/ ~TTLParses(r.Annotations)

\* C14: in every source, a pass in which nothing but a TTL annotation can
\* be at fault (the lister and every request have answered, nothing has
\* changed during the pass) returns no error, and the endpoints of a resource without a
\* TTL annotation that parses have TTL 0.
C14_TTLNeverFatal ==
    (source \in Adapters /\ pc = "done" /\ Undisturbed /\ OnlyTTLCanFail) =>
        /\ ~returned.err
        /\ source # "gloo" =>
              \A i \in Listed :
                  NoUsableTTL(cache.resources[i]) =>
                      \A k \in EndpointsOf(i) : returned.endpoints[k].RecordTTL = 0


\* The template is applied to the resource and fails to render.
RenderFails(r) ==
    /\ config.fqdnTemplate # Nil
    /\ config.combineFQDNAnnotation \/ OwnHostnames(r) = <<>> \/ ResourceTargets(r) = <<>>
    /\ Execute(config.fqdnTemplate, r).err

\* C15: a pass of the HTTPProxy or IngressRoute source that has listed its
\* resources, and in which the template fails to render for a resource,
\* returns no error, and returns endpoints
\* for every resource that passes the filter, has a hostname and targets,
\* and for which no render fails.
C15_RenderFailureLocal ==
    (source \in ContourSources /\ pc = "done" /\ Undisturbed) =>
        /\ ~returned.err
        /\ \A i \in Listed :
              LET r == cache.resources[i]
              IN  (Passes(r) /\ ~RenderFails(r) /\ ExpectedNames(r) # <<>>) =>
                      \E k \in 1..Len(returned.endpoints) :
                          returned.endpoints[k].Labels[ResourceLabelKey] = LabelOf(r)


LabellingSources == {"httpproxy", "ingressroute", "kong"}

\* s ends with t
EndsWith(s, t) == Len(t) <= Len(s) /\ SubSeq(s, Len(s) - Len(t) + 1, Len(s)) = t

\* The label is <kind>/<namespace>/<name> for the resource: it ends with
\* /<namespace>/<name> after a kind that is not empty and has no '/', and
\* the kind is "ingressroute" or "tcpingress" in those two sources.
IsResourceLabelOf(label, r) ==
    LET tail == <<"/">> \o r.Namespace \o <<"/">> \o r.Name
        kind == SubSeq(label, 1, Len(label) - Len(tail))
    IN  /\ EndsWith(label, tail)
        /\ kind # <<>>
        /\ Occurrences(kind, "/") = 0
        /\ source = "ingressroute" =>
              kind = <<"i", "n", "g", "r", "e", "s", "s", "r", "o", "u", "t", "e">>
        /\ source = "kong" =>
              kind = <<"t", "c", "p", "i", "n", "g", "r", "e", "s", "s">>

Labelled(eps) ==
    \A k \in 1..Len(eps) :
        /\ ResourceLabelKey \in DOMAIN eps[k].Labels
        /\ IsResourceLabelOf(eps[k].Labels[ResourceLabelKey], cache.resources[origins[k]])

\* C17: in the HTTPProxy, IngressRoute and Kong TCPIngress sources, every
\* accumulated endpoint carries, at every step of the pass, the resource
\* label <kind>/<namespace>/<name> of the resource it was made from, and so
\* does every endpoint of the returned list.
C17_ResourceLabel ==
    source \in LabellingSources =>
        /\ pc \in {"loop", "done"} => Labelled(endpoints)
        /\ Succeeded => Labelled(returned.endpoints)

\* A pass has returned endpoints of two resources, template hostnames among
\* those of the first, each with the label of its own resource.
C17_Witness ==
    /\ source = "ingressroute"
    /\ Succeeded
    /\ config.fqdnTemplate # Nil
    /\ EndpointsOf(1) # {}
    /\ EndpointsOf(2) # {}
    /\ \E k \in EndpointsOf(1) :
          returned.endpoints[k].DNSName \in Range(DNSNames(TemplateHostnames(cache.resources[1])))
    /\ \A k \in EndpointsOf(1) :
          returned.endpoints[k].Labels[ResourceLabelKey] =
              <<"i", "n", "g", "r", "e", "s", "s", "r", "o", "u", "t", "e", "/">>
                  \o cache.resources[1].Namespace \o <<"/">> \o cache.resources[1].Name


UnlabellingSources == {"ambassador", "gloo"}

\* C18: every endpoint returned by a pass of the Ambassador Host or Gloo
\* Proxy source has the resource label in its label map.  Neither source
\* sets it: the endpoints come back with the empty label map they were
\* made with.
C18_ProvenanceLabel ==
    (source \in UnlabellingSources /\ Succeeded) =>
        \A k \in 1..Len(returned.endpoints) :
            ResourceLabelKey \in DOMAIN returned.endpoints[k].Labels


\* C19: every endpoint returned by a pass of the HTTPProxy source has the
\* resource label "httpproxy/<namespace>/<name>", the kind in lower case,
\* of the HTTPProxy it was made from.
C19_LowerCaseKind ==
    (source = "httpproxy" /\ Succeeded) =>
        \A k \in 1..Len(returned.endpoints) :
            returned.endpoints[k].Labels[ResourceLabelKey] =
                <<"h", "t", "t", "p", "p", "r", "o", "x", "y", "/">>
                    \o cache.resources[origins[k]].Namespace \o <<"/">>
                    \o cache.resources[origins[k]].Name


\* The targets the source resolves for a resource, and whether resolving
\* them fails.
Resolved(r) ==
    CASE source = "httpproxy" -> [err |-> FALSE, targets |-> httpProxyTargets(r)]
      [] source = "ingressroute" -> ingressRouteTargets(config, cache.services, r)
      [] source = "kong" -> [err |-> FALSE, targets |-> lbTargets(r.LoadBalancer)]
      [] source = "ambassador" ->
            IF HasReference(r)
            THEN targetsFromAmbassadorLoadBalancer(cache.services, r.Annotations[ambHostAnnotation])
            ELSE [err |-> FALSE, targets |-> Nil]
      [] source = "gloo" -> proxyTargets(config, cache.services, r.Name)

\* Nothing is at fault in the pass: what OnlyTTLCanFail says, and every TTL
\* annotation parses.
NoFault ==
    /\ OnlyTTLCanFail
    /\ source \in {"kong", "ambassador"} =>
          \A i \in Listed : TTLParses(cache.resources[i].Annotations)
    /\ source = "gloo" =>
          \A key \in DOMAIN cache.virtualServices : TTLParses(cache.virtualServices[key])

\* C20: in every source, every endpoint accumulated or returned has at
\* least one target; in a pass that no request failed and during which no
\* service changed, a resource for which the source resolves no target has
\* no endpoint; and such a pass in which nothing is at fault returns no
\* error, whichever of its resources have no target.
C20_TargetsNonEmpty ==
    source \in Adapters =>
        /\ \A k \in 1..Len(endpoints) : endpoints[k].Targets # <<>>
        /\ \A k \in 1..Len(returned.endpoints) : returned.endpoints[k].Targets # <<>>
        /\ Undisturbed =>
              \A i \in Listed :
                  (~Resolved(cache.resources[i]).err /\ Resolved(cache.resources[i]).targets = <<>>)
                      => EndpointsOf(i) = {}
        /\ (pc = "done" /\ Undisturbed /\ NoFault) => ~returned.err

\* A pass has returned the endpoints of one resource and none for another
\* that passes the filter and has a hostname but no target.
C20_Witness ==
    /\ source = "ingressroute"
    /\ Succeeded
    /\ returned.endpoints # <<>>
    /\ \E i \in Listed :
          /\ Passes(cache.resources[i])
          /\ HasNativeHostname(cache.resources[i])
          /\ Resolved(cache.resources[i]).targets = <<>>
          /\ EndpointsOf(i) = {}


FilteringSources == {"httpproxy", "ingressroute", "kong"}

\* The documented examples of a template and of filters that do not parse.
BadTemplates == {s_tmplUnclosed}
BadFilters == {s_filterInAB, s_filterNoKey}

\* The constructor called reads a filter or a template that does not parse.
Unparseable ==
    \/ arg.new \in FilteringSources /\ arg.config.AnnotationFilter \in BadFilters
    \/ arg.new \in ContourSources /\ arg.config.FQDNTemplate \in BadTemplates

\* C16: once the constructor of the HTTPProxy, IngressRoute or Kong source
\* has been called with a filter that does not parse, or that of the
\* HTTPProxy or IngressRoute source with a template that does not parse, it
\* has returned an error and no source, and no pass has run or runs; and a
\* pass of a constructed source of these kinds that returns an error could
\* not list its resources or has stopped at a resource for which the template fails to render (HTTPProxy,
\* IngressRoute) or whose TTL annotation does not parse (Kong).
C16_ConfigurationFatal ==
    /\ (pc # "new" /\ Unparseable) =>
          /\ pc = "failed"
          /\ out.err /\ out.source = Nil
          /\ source = "none"
          /\ passes = 0 /\ ~returned.called /\ endpoints = <<>>
    /\ (source \in FilteringSources /\ pc = "done" /\ returned.err) =>
          \/ env.fault = "list"
          \/ IF source = "kong"
             THEN ~TTLParses(cache.resources[idx].Annotations)
             ELSE /\ config.fqdnTemplate # Nil
                  /\ Execute(config.fqdnTemplate, cache.resources[idx]).err
                  /\ env.changed \/ RenderFails(cache.resources[idx])

\* NewContourHTTPProxySource has returned an error for the template
\* "{{.Name" although the filter parses, the clients are there and the
\* cache holds an HTTPProxy.
C16_Witness ==
    /\ pc = "failed"
    /\ arg.new = "httpproxy"
    /\ arg.clients
    /\ arg.config.FQDNTemplate = s_tmplUnclosed
    /\ arg.config.AnnotationFilter = s_filterEq
    /\ out.err /\ out.source = Nil
    /\ cache.resources # <<>>


CountOf(seq, t) == Cardinality({j \in 1..Len(seq) : seq[j] = t})

\* The targets are all addresses, or none of them is.
Homogeneous(targets) ==
    \/ \A j \in 1..Len(targets) : IsIP(targets[j])
    \/ \A j \in 1..Len(targets) : ~IsIP(targets[j])

\* C21: in a returned list of the HTTPProxy or IngressRoute source, a
\* resource that passes the filter has, for each of its hostnames in turn,
\* one endpoint for each kind of target among its targets (address,
\* hostname) and no other; each of these endpoints holds targets of one kind
\* only, and each target of the resource is in exactly one endpoint of the
\* hostname, as many times as the resource has it.  No endpoint returned by
\* any source holds both an address and a hostname.
C21_TargetsPartitioned ==
    /\ (source \in Adapters /\ Succeeded) =>
          \A k \in 1..Len(returned.endpoints) : Homogeneous(returned.endpoints[k].Targets)
    /\ (source \in ContourSources /\ Succeeded) =>
          \A i \in Listed :
              LET r == cache.resources[i]
                  targets == ResourceTargets(r)
                  hostnames == UsedHostnames(r)
                  n == KindCount(targets)
                  base == Len(ExpectedUpTo(i - 1))
              IN  Passes(r) =>
                      /\ Cardinality(EndpointsOf(i)) = Len(hostnames) * n
                      /\ \A j \in 1..Len(hostnames) :
                            LET group == {base + (j - 1) * n + c : c \in 1..n}
                            IN  /\ \A k \in group :
                                      /\ origins[k] = i
                                      /\ returned.endpoints[k].DNSName = TrimSuffixDot(hostnames[j])
                                /\ \A t \in Range(targets) :
                                      \E k \in group :
                                          /\ CountOf(returned.endpoints[k].Targets, t) = CountOf(targets, t)
                                          /\ \A l \in group \ {k} :
                                                CountOf(returned.endpoints[l].Targets, t) = 0
                                /\ \A k \in group :
                                      Range(returned.endpoints[k].Targets) \subseteq Range(targets)

\* A pass has returned six endpoints for an HTTPProxy with a native
\* hostname, two annotation hostnames and a status of two addresses and two
\* hostnames.
C21_Witness ==
    /\ source = "httpproxy"
    /\ Succeeded
    /\ \E i \in Listed :
          /\ Len(UsedHostnames(cache.resources[i])) = 3
          /\ \E t, u \in Range(ResourceTargets(cache.resources[i])) : t # u /\ IsIP(t) /\ IsIP(u)
          /\ KindCount(ResourceTargets(cache.resources[i])) = 2
          /\ Cardinality(EndpointsOf(i)) = 6


\* The resource without its hostname annotation.
WithoutHostnameAnnotation(r) ==
    [r EXCEPT !.Annotations =
        [k \in DOMAIN r.Annotations \ {hostnameAnnotationKey} |-> r.Annotations[k]]]

\* What the loop of the source makes of a resource, its provider-specific
\* pairs made in the given orders.
LoopBodyOf(r, orders) ==
    IF source = "httpproxy" THEN httpProxyLoopBody(config, r, orders)
    ELSE ingressRouteLoopBody(config, cache.services, cache.services, r, orders)

\* The endpoints of resource i in the returned list, in order.
ReturnedOf(i) ==
    LET base == Cardinality({k \in 1..Len(origins) : origins[k] < i})
    IN  [j \in 1..Cardinality(EndpointsOf(i)) |-> returned.endpoints[base + j]]

\* The DNS names written in the hostname annotation of the resource.
AnnotationNames(r) ==
    IF hostnameAnnotationKey \in DOMAIN r.Annotations
    THEN {WithoutLastPeriod(WithoutAnySpace(Item(r.Annotations[hostnameAnnotationKey], k))) :
            k \in 1..(Cardinality(CommaPositions(r.Annotations[hostnameAnnotationKey])) + 1)}
    ELSE {}

NativeAndTemplateNames(r) ==
    (IF HasNativeHostname(r) THEN {WithoutLastPeriod(r.VirtualHost[1].Fqdn)} ELSE {})
    \cup (IF config.fqdnTemplate # Nil THEN Range(DNSNames(TemplateHostnames(r))) ELSE {})

\* C22: in a returned list of the HTTPProxy or IngressRoute source, when
\* the source ignores the hostname annotation, the endpoints of a resource
\* are those of the same resource without the annotation, and none of them
\* has a DNS name that only the annotation gives; when it does not, every
\* entry of the annotation of a resource that passes the filter and has
\* targets is the DNS name of one of its endpoints.
C22_IgnoreHostnameAnnotation ==
    (source \in ContourSources /\ Succeeded) =>
        \A i \in Listed :
            LET r == cache.resources[i]
            IN  /\ config.ignoreHostnameAnnotation =>
                      /\ \E orders \in CallOrders(r.Annotations, 2) :
                            ReturnedOf(i) =
                                sortEndpoints(LoopBodyOf(WithoutHostnameAnnotation(r), orders).eps)
                      /\ NamesOf(i) \cap (AnnotationNames(r) \ NativeAndTemplateNames(r)) = {}
                /\ (~config.ignoreHostnameAnnotation /\ Passes(r) /\ ResourceTargets(r) # <<>>) =>
                      AnnotationNames(r) \subseteq NamesOf(i)

\* A source that ignores the hostname annotation has returned endpoints
\* for a resource with a native hostname and a hostname annotation of two
\* entries.
C22_Witness ==
    /\ source \in ContourSources
    /\ Succeeded
    /\ config.ignoreHostnameAnnotation
    /\ \E i \in Listed :
          /\ Cardinality(AnnotationNames(cache.resources[i])) = 2
          /\ HasNativeHostname(cache.resources[i])
          /\ NamesOf(i) # {}


UncheckedSources == {"kong", "ambassador", "gloo"}

\* C23: in a returned list of the Kong TCPIngress, Ambassador Host or Gloo
\* Proxy source, a resource whose controller annotation names another
\* controller has no endpoint.
C23_ForeignControllerSkipped ==
    (source \in UncheckedSources /\ Succeeded) =>
        \A i \in Listed : ForeignController(cache.resources[i]) => EndpointsOf(i) = {}


\* C24: in a returned list of the Kong TCPIngress source, the DNS names of
\* the endpoints of a TCPIngress are those of its rule hosts, in rule order,
\* followed by those of the entries of its hostname annotation.
C24_KongNativeFirst ==
    (source = "kong" /\ Succeeded) =>
        \A i \in Listed :
            LET r == cache.resources[i]
                targets == lbTargets(r.LoadBalancer)
            IN  SelectorMatches(config.annotationSelector, r.Annotations) =>
                    NamesIn(ReturnedOf(i)) =
                        RepeatEach(DNSNames(ruleHosts(r.Rules)
                                            \o getHostnamesFromAnnotations(r.Annotations)),
                                   KindCount(targets))


\* The sources of a virtual host that name a VirtualService, by position.
VirtualServiceSources(vhost) ==
    {j \in 1..Len(vhost.Source) : vhost.Source[j].Kind = virtualServiceKind}

AnnotationsOfSource(src) == cache.virtualServices[<<src.Namespace, src.Name>>]

\* The annotations a virtual host takes from its VirtualService sources: for
\* each key, the value of the last source that has it.
VirtualHostAnnotations(vhost) ==
    LET having(k) == {j \in VirtualServiceSources(vhost) : k \in DOMAIN AnnotationsOfSource(vhost.Source[j])}
        keys == UNION {DOMAIN AnnotationsOfSource(vhost.Source[j]) : j \in VirtualServiceSources(vhost)}
    IN  [k \in keys |->
            AnnotationsOfSource(vhost.Source[CHOOSE j \in having(k) : \A l \in having(k) : l <= j])[k]]

\* For each domain of the virtual hosts, in order, the position of its
\* virtual host.
RECURSIVE DomainOwners(_, _)
DomainOwners(vhosts, j) ==
    IF j > Len(vhosts) THEN <<>>
    ELSE [d \in 1..Len(vhosts[j].Domains) |-> j] \o DomainOwners(vhosts, j + 1)

RECURSIVE AllDomains(_)
AllDomains(vhosts) ==
    IF vhosts = <<>> THEN <<>> ELSE Head(vhosts).Domains \o AllDomains(Tail(vhosts))

\* The endpoints of proxy i in a returned list of the Gloo source are, for
\* each domain of its virtual hosts in order, n endpoints named like the
\* domain; they carry the TTL, the provider-specific pairs and the set
\* identifier of the annotations of the VirtualService sources of the
\* virtual host, and between them the targets of the service named like
\* the proxy.
GlooEndpointsOf(i, n) ==
    LET p == cache.resources[i]
        vhosts == proxyVirtualHosts(p.Listeners)
        owners == DomainOwners(vhosts, 1)
        domains == AllDomains(vhosts)
        targets == proxyTargets(config, cache.services, p.Name).targets
        eps == ReturnedOf(i)
    IN  /\ Len(eps) = Len(domains) * n
        /\ \A d \in 1..Len(domains) :
              LET annotations == VirtualHostAnnotations(vhosts[owners[d]])
                  group == {(d - 1) * n + c : c \in 1..n}
              IN  /\ \A k \in group :
                        /\ eps[k].DNSName = WithoutLastPeriod(domains[d])
                        /\ eps[k].RecordTTL = getTTLFromAnnotations(annotations).ttl
                        /\ \E order \in RangeOrders(annotations) :
                               eps[k].ProviderSpecific =
                                   getProviderSpecificAnnotations(annotations, order).providerSpecific
                        /\ eps[k].SetIdentifier =
                               getProviderSpecificAnnotations(annotations, FirstOrder).setIdentifier
                        /\ VirtualServiceSources(vhosts[owners[d]]) = {} =>
                               /\ eps[k].RecordTTL = 0
                               /\ eps[k].ProviderSpecific = <<>>
                               /\ eps[k].SetIdentifier = <<>>
                  /\ \A t \in Range(targets) :
                        \E k \in group : CountOf(eps[k].Targets, t) = CountOf(targets, t)
                  /\ \A k \in group : Range(eps[k].Targets) \subseteq Range(targets)

\* C25 as stated: one endpoint for each domain, carrying all the targets.
C25_OneEndpointPerDomain ==
    (source = "gloo" /\ Succeeded) =>
        \A i \in Listed :
            /\ GlooEndpointsOf(i, 1)
            /\ \A k \in 1..Len(ReturnedOf(i)) :
                  ReturnedOf(i)[k].Targets =
                      proxyTargets(config, cache.services, cache.resources[i].Name).targets

\* C25: in a returned list of the Gloo Proxy source, each domain of each
\* virtual host of a proxy has one endpoint for each kind of target
\* (address, hostname) among the targets of the service named like the
\* proxy, and none when that service has no target; the endpoints carry
\* the TTL, provider-specific pairs and set identifier of the annotations
\* of the virtual host's sources of kind "*v1.VirtualService", the later
\* source overriding the earlier one, and TTL 0, no pair and an empty set
\* identifier when there is no such source; a source of another kind is
\* not looked up, so that it need not exist.
C25_GlooVirtualHosts ==
    (source = "gloo" /\ Succeeded) =>
        \A i \in Listed :
            GlooEndpointsOf(i, KindCount(proxyTargets(config, cache.services,
                                                      cache.resources[i].Name).targets))

\* A pass has returned the endpoints of a proxy one of whose virtual hosts
\* names two VirtualServices with different TTL annotations, and the
\* endpoints of that virtual host carry the TTL of the second.
C25_Witness ==
    /\ source = "gloo"
    /\ Succeeded
    /\ \E i \in Listed :
          LET vhosts == proxyVirtualHosts(cache.resources[i].Listeners)
          IN  /\ Len(vhosts) = 2
              /\ vhosts[1].Source = <<FoundSource, SecondSource>>
              /\ Len(ReturnedOf(i)) >= 3
              /\ ReturnedOf(i)[1].RecordTTL = 120
              /\ ReturnedOf(i)[Len(ReturnedOf(i))].RecordTTL = 10


\* The targets of the list that are of the kind of the target t, in the
\* order of the list.
OfKindOf(targets, t) == SelectSeq(targets, LAMBDA u : IsIP(u) = IsIP(t))

\* C26: in a pass of the HTTPProxy or IngressRoute source, a resource that
\* the selector, the controller annotation or the status excludes has no
\* endpoint in the batch, and a pass that lists its resources and returns
\* an error has stopped at a resource that passes the three checks; every
\* endpoint in the batch has the resource label of its resource from the
\* moment it is merged; and while the loop runs the targets of the endpoints
\* in the batch are in the order in which they were resolved, the returned
\* list having them sorted.
C26_StageOrder ==
    source \in ContourSources =>
        /\ \A i \in Listed : ~Passes(cache.resources[i]) => EndpointsOf(i) = {}
        /\ (pc = "done" /\ returned.err /\ env.fault # "list") => Passes(cache.resources[idx])
        /\ \A k \in 1..Len(endpoints) :
              /\ ResourceLabelKey \in DOMAIN endpoints[k].Labels
              /\ endpoints[k].Labels[ResourceLabelKey] = LabelOf(cache.resources[origins[k]])
        /\ (pc = "loop" /\ Undisturbed) =>
              \A k \in 1..Len(endpoints) :
                  endpoints[k].Targets =
                      OfKindOf(ResourceTargets(cache.resources[origins[k]]), endpoints[k].Targets[1])
        /\ Succeeded =>
              \A k \in 1..Len(returned.endpoints) :
                  /\ NonDecreasing(returned.endpoints[k].Targets)
                  /\ returned.endpoints[k].Targets =
                         SortTargets(OfKindOf(ResourceTargets(cache.resources[origins[k]]),
                                              returned.endpoints[k].Targets[1]))

\* A pass has succeeded although its template does not render for a
\* resource that is excluded and for which it would have been rendered.
C26_Witness ==
    /\ source \in ContourSources
    /\ Succeeded
    /\ config.fqdnTemplate # Nil
    /\ \E i \in Listed :
          /\ ~Passes(cache.resources[i])
          /\ Execute(config.fqdnTemplate, cache.resources[i]).err
          /\ config.combineFQDNAnnotation \/ OwnHostnames(cache.resources[i]) = <<>>


\* C27: in every source, a pass that returns an error returns no endpoint,
\* whatever the resources before the failing one have put in the batch.
C27_NoPartialBatch ==
    (source \in Adapters /\ returned.called /\ returned.err) =>
        /\ returned.endpoints = Nil
        /\ Len(returned.endpoints) = 0

\* A pass has returned an error and no endpoint at its second resource,
\* with the endpoints of the first in the batch.
C27_Witness ==
    /\ source \in {"httpproxy", "kong", "gloo"}
    /\ pc = "done"
    /\ returned.err
    /\ idx = 2
    /\ endpoints # <<>>
    /\ \A k \in 1..Len(origins) : origins[k] = 1
    /\ returned.endpoints = Nil


\* C28: once the context of a running pass of the HTTPProxy, IngressRoute
\* or Kong source is cancelled, the pass visits no further resource, merges
\* no further endpoint and does not return a list of endpoints.
C28_CancellationStops ==
    [][(source \in {"httpproxy", "ingressroute", "kong"} /\ pc = "loop" /\ ctx = "cancelled") =>
           /\ idx' = idx
           /\ endpoints' = endpoints
           /\ ~(pc' = "done" /\ ~returned'.err)]_vars


\* The load-balancer ingress lists a pass of the source reads: those of the
\* listed resources and those of the cached services.
IngressLists ==
    {cache.resources[i].LoadBalancer : i \in {j \in Listed : "LoadBalancer" \in DOMAIN cache.resources[j]}}
        \cup {cache.services[n].Ingress : n \in DOMAIN cache.services}

\* The snapshot that the two goroutines share: the objects their listed
\* slices point to, the services and the VirtualServices.
SharedSnapshot ==
    [objects |-> Range(cache.resources) \cup Range(other.resources),
     services |-> cache.services,
     virtualServices |-> cache.virtualServices]

\* What the loop of the source makes of a resource of the snapshot when
\* nothing changes.
BodyAlone(r) ==
    CASE source = "httpproxy" -> httpProxyLoopBody(config, r, <<FirstOrder, FirstOrder>>)
      [] source = "ingressroute" ->
            ingressRouteLoopBody(config, cache.services, cache.services, r, <<FirstOrder, FirstOrder>>)
      [] source = "kong" -> kongLoopBody(config, r, <<FirstOrder>>)
      [] source = "ambassador" -> ambassadorLoopBody(cache.services, r)
      [] source = "gloo" ->
            glooLoopBody(config, cache.services,
                         Steady(cache.virtualServices, proxyVirtualHostSources(r.Listeners)), r,
                         [i \in 1..Len(proxyVirtualHosts(r.Listeners)) |-> FirstOrder])

\* What a call of Endpoints returns when it runs alone from its first
\* statement to its return over the resources as listed: the endpoints of
\* the resources in list order, their targets sorted where the source
\* sorts, or nil and an error.
RECURSIVE AloneFrom(_, _)
AloneFrom(resources, eps) ==
    IF resources = <<>>
    THEN [called |-> TRUE,
          endpoints |-> IF source \in SortingSources THEN sortEndpoints(eps) ELSE eps,
          err |-> FALSE]
    ELSE LET body == BodyAlone(Head(resources))
         IN  CASE body.kind = "skip" -> AloneFrom(Tail(resources), eps)
               [] body.kind = "append" -> AloneFrom(Tail(resources), eps \o body.eps)
               [] body.kind = "error" -> [called |-> TRUE, endpoints |-> Nil, err |-> TRUE]

Alone(resources) == AloneFrom(resources, <<>>)

\* C29: while two goroutines are each in a call of Endpoints of one source
\* over one snapshot, their steps interleaved in any way, no step
\* (listing, filtering, target resolution, labeling, the sort of the
\* targets, the return) changes an object of the snapshot, a service or a
\* VirtualService, and each call returns what it would have returned
\* running alone over the resources as its lister returned them (but for
\* the order in which the provider-specific pairs of an object are made).
C29_SnapshotUnchanged ==
    /\ [][SharedSnapshot' = SharedSnapshot]_vars
    /\ [](pc = "done" => SameButForPairOrder(returned, Alone(cache.resources)))

\* A call has returned an endpoint whose sorted targets are in another
\* order than in the ingress list they were read from, while the call of
\* the other goroutine, which had listed before, is still in its loop and
\* has merged endpoints; the ingress list is in the snapshot in its own
\* order.
C29_Witness ==
    /\ source \in SortingSources
    /\ pc = "done" /\ returned.called /\ ~returned.err
    /\ other.pc = "loop" /\ other.endpoints # <<>> /\ other.idx <= Len(other.resources)
    /\ \E ingress \in IngressLists :
          /\ ~NonDecreasing(lbTargets(ingress))
          /\ \E k \in 1..Len(returned.endpoints) :
                /\ Len(returned.endpoints[k].Targets) >= 2
                /\ Range(returned.endpoints[k].Targets) \subseteq Range(lbTargets(ingress))
                /\ NonDecreasing(returned.endpoints[k].Targets)


\* C30: no endpoint returned by a pass of the HTTPProxy or IngressRoute
\* source that succeeded has an empty DNS name, whatever the template
\* renders to.
C30_NoEmptyDNSName ==
    (source \in {"httpproxy", "ingressroute"} /\ returned.called /\ ~returned.err) =>
        \A k \in 1..Len(returned.endpoints) : returned.endpoints[k].DNSName # <<>>

====
